---------------------------- MODULE Spec2Model ----------------------------
(***************************************************************************)
(* A model of the ghostfolio rebalancing / portfolio-performance code:     *)
(*   - PPCostBasisCalculator, the FIFO lot ledger                          *)
(*   - RebalancingService, strategy and target management over the        *)
(*     database (each await of a Prisma call is one step of a call), and   *)
(*     the allocation analysis, drift summary and rebalancing suggestions  *)
(*   - PPTtwrorCalculator, the true time-weighted rate of return           *)
(* Each part has its own specification; the variables of the other parts   *)
(* stay at their initial value.                                            *)
(***************************************************************************)
EXTENDS Integers, Sequences, FiniteSets, TLC

VARIABLES
    lots,          \* PPCostBasisCalculator.lots: Map securityId -> PPPurchaseLot[]
    nextLotId,     \* stands for randomUUID(): a lot id never handed out before
    result,        \* the value returned by the latest ledger call
    purchased,     \* history: total shares passed to addPurchase, per security
    consumed,      \* history: total shares reported sold or returned as transferred
    strategies,    \* table RebalancingStrategy: id -> [userId, isActive, driftThreshold]
    classTargets,  \* table AssetClassTarget: id -> [strategyId, assetClass, targetPercent]
    subTargets,    \* table AssetSubClassTarget: id -> [assetClassTargetId, assetSubClass, targetPercent]
    nextStrategyId,     \* the ids the database hands out are never reused
    nextClassTargetId,
    nextSubTargetId,
    calls,         \* the RebalancingService calls in flight: slot -> position and locals
    done,          \* the call that completed last, until another call starts
    exclusions,    \* table RebalancingExclusion: id -> [strategyId, userId, symbolProfileId,
                   \*                                    excludeFromCalculation, neverSell]
    nextExclusionId,
    report,        \* the value returned (or the error thrown) by the latest analysis call,
                   \* with the strategy id, the holdings and the exclusions it was made
                   \* with and the user's active strategies at the time
    performance    \* the latest call of a performance calculator: its arguments
                   \* and the value it returned

ledgerVars == <<lots, nextLotId, result, purchased, consumed>>

dbVars == <<strategies, classTargets, subTargets, nextStrategyId,
            nextClassTargetId, nextSubTargetId, calls, done>>

analysisVars == <<exclusions, nextExclusionId, report>>

performanceVars == <<performance>>

\* what the ledger's operations, and what the strategy and target calls, leave alone
exceptLedger == <<dbVars, analysisVars, performanceVars>>

exceptDb == <<ledgerVars, analysisVars, performanceVars>>

vars == <<lots, nextLotId, result, purchased, consumed,
          strategies, classTargets, subTargets, nextStrategyId,
          nextClassTargetId, nextSubTargetId, calls, done,
          exclusions, nextExclusionId, report, performance>>

\* number | null, as returned by getOldestHoldingPeriodDays
Null == [isNull |-> TRUE, days |-> 0]

Days(n) == [isNull |-> FALSE, days |-> n]

(***************************************************************************)
(* Bounds and input sets of the ledger                                     *)
(***************************************************************************)
MaxLots == 3

Securities == {"AAPL", "GOOGL"}

\* 1000 * 60 * 60 * 24, the divisor of getOldestHoldingPeriodDays
MsPerDay == 1000 * 60 * 60 * 24

\* Date.getTime() values of midnight of day 0, noon of day 0, midnight of day 1
Day0 == 0 * MsPerDay

Day0Noon == MsPerDay \div 2

Day1 == MsPerDay

\* The purchases handed to addPurchase: date, shares, totalCost, fees.  Whole
\* shares divide every totalCost and every fees * shares taken; lots can share
\* a date, they differ in cost per share, and one holds no shares.
Purchases ==
    { [date |-> Day0,     shares |-> 10, totalCost |-> 1000, fees |-> 10],
      [date |-> Day1,     shares |-> 10, totalCost |-> 1200, fees |-> 0],
      [date |-> Day0Noon, shares |-> 5,  totalCost |-> 750,  fees |-> 5],
      [date |-> Day0,     shares |-> 0,  totalCost |-> 0,    fees |-> 0] }

AsOfDates == {Day0, Day1, Day1 + Day0Noon, 2 * Day1}

ThresholdDays == {0, 1}

SaleQuantities == {0, 5, 15}

TransferQuantities == {5, 10}

SalePrices == {130}

(***************************************************************************)
(* big.js arithmetic.  plus, minus and times are exact.  div rounds to 20  *)
(* decimal places; every quotient formed here is a whole number (the       *)
(* inputs are drawn that way), so div is exact integer division.           *)
(***************************************************************************)
BigDiv(a, b) == a \div b

LotsOf(ls, securityId) == IF securityId \in DOMAIN ls THEN ls[securityId] ELSE <<>>

\* Array.prototype.sort((a, b) => a.date - b.date): a stable sort by date
RECURSIVE InsertByDate(_, _)
InsertByDate(sorted, lot) ==
    IF sorted = <<>> THEN <<lot>>
    ELSE IF sorted[Len(sorted)].date - lot.date <= 0
         THEN Append(sorted, lot)
         ELSE Append(InsertByDate(SubSeq(sorted, 1, Len(sorted) - 1), lot),
                     sorted[Len(sorted)])

RECURSIVE SortByDate(_)
SortByDate(s) ==
    IF s = <<>> THEN <<>>
    ELSE InsertByDate(SortByDate(SubSeq(s, 1, Len(s) - 1)), s[Len(s)])

NewLot(id, date, shares, totalCost, fees) ==
    [id |-> id,
     date |-> date,
     shares |-> shares,
     costPerShare |-> IF shares > 0 THEN BigDiv(totalCost, shares) ELSE 0,
     totalCost |-> totalCost,
     remainingShares |-> shares,
     fees |-> fees]

\* a plausible slip: the lot is pushed and the list is not sorted again
PushUnsorted(securityLots, lot) == Append(securityLots, lot)

\* securityLots.push(lot); securityLots.sort(...)
PushAndSort(securityLots, lot) == SortByDate(Append(securityLots, lot))

\* a plausible slip: the requested quantity is taken from the lot unclamped
SharesToTakeUnclamped(remaining, lotRemaining) == remaining

\* remaining.lt(lot.remainingShares) ? remaining : lot.remainingShares
SharesToTake(remaining, lotRemaining) ==
    IF remaining < lotRemaining THEN remaining ELSE lotRemaining

\* a plausible slip: the whole lot's cost is charged to a partial sale
CostBasisOfWholeLot(sharesToTakeFromLot, lot) == lot.totalCost

\* sharesToTakeFromLot.times(lot.costPerShare)
CostBasisForShares(sharesToTakeFromLot, lot) ==
    sharesToTakeFromLot * lot.costPerShare

\* a plausible slip: the requested quantity is reported as sold
RequestedSharesSold(sharesToSell, remaining) == sharesToSell

\* sharesToSell.minus(remaining)
ActualSharesSold(sharesToSell, remaining) == sharesToSell - remaining

\* the for-loop of processSale over securityLots, from index i on
RECURSIVE SaleWalk(_, _, _, _, _)
SaleWalk(ls, i, remaining, totalCostBasis, lotsUsed) ==
    IF i > Len(ls) \/ remaining <= 0
    THEN [lots |-> ls, remaining |-> remaining,
          totalCostBasis |-> totalCostBasis, lotsUsed |-> lotsUsed]
    ELSE IF ls[i].remainingShares <= 0
    THEN SaleWalk(ls, i + 1, remaining, totalCostBasis, lotsUsed)
    ELSE LET sharesToTakeFromLot == SharesToTake(remaining, ls[i].remainingShares)
             costBasisForShares == CostBasisForShares(sharesToTakeFromLot, ls[i])
         IN  SaleWalk([ls EXCEPT ![i].remainingShares = @ - sharesToTakeFromLot],
                      i + 1,
                      remaining - sharesToTakeFromLot,
                      totalCostBasis + costBasisForShares,
                      Append(lotsUsed,
                             [lotId |-> ls[i].id,
                              lotDate |-> ls[i].date,
                              sharesSold |-> sharesToTakeFromLot,
                              costBasis |-> costBasisForShares]))

\* the lot pushed by the "transfer entire lot" branch: {...lot, id, date, shares, remainingShares}
WholeLotTransfer(lot, id, sharesToTake) ==
    [lot EXCEPT !.id = id, !.date = lot.date,
                !.shares = sharesToTake, !.remainingShares = sharesToTake]

\* the lot pushed by the partial-transfer branch
PartialLotTransfer(lot, id, sharesToTake) ==
    [id |-> id,
     date |-> lot.date,
     shares |-> sharesToTake,
     costPerShare |-> lot.costPerShare,
     totalCost |-> sharesToTake * lot.costPerShare,
     remainingShares |-> sharesToTake,
     fees |-> BigDiv(lot.fees * sharesToTake, lot.shares)]

\* the for-loop of processTransfer; `from` remembers, for each returned lot,
\* the id of the ledger lot it was taken from (history, not program state)
RECURSIVE TransferWalk(_, _, _, _, _, _)
TransferWalk(ls, i, remaining, transferredLots, from, id) ==
    IF i > Len(ls) \/ remaining <= 0
    THEN [lots |-> ls, remaining |-> remaining,
          transferredLots |-> transferredLots, from |-> from, nextId |-> id]
    ELSE IF ls[i].remainingShares <= 0
    THEN TransferWalk(ls, i + 1, remaining, transferredLots, from, id)
    ELSE LET sharesToTake == SharesToTake(remaining, ls[i].remainingShares)
         IN  IF sharesToTake = ls[i].remainingShares
             THEN TransferWalk([ls EXCEPT ![i].remainingShares = 0],
                               i + 1, remaining - sharesToTake,
                               Append(transferredLots,
                                      WholeLotTransfer(ls[i], id, sharesToTake)),
                               Append(from, ls[i].id), id + 1)
             ELSE TransferWalk([ls EXCEPT ![i].remainingShares = @ - sharesToTake],
                               i + 1, remaining - sharesToTake,
                               Append(transferredLots,
                                      PartialLotTransfer(ls[i], id, sharesToTake)),
                               Append(from, ls[i].id), id + 1)

\* a plausible slip: exhausted lots are not filtered out
getAllLots(ls, securityId) == LotsOf(ls, securityId)

\* getActiveLots: allLots.filter(lot => lot.remainingShares.gt(0))
getActiveLots(ls, securityId) ==
    SelectSeq(LotsOf(ls, securityId), LAMBDA lot : lot.remainingShares > 0)

getOldestHoldingPeriodDays(ls, securityId, asOfDate) ==
    LET activeLots == getActiveLots(ls, securityId)
    IN  IF Len(activeLots) = 0 THEN Null
        ELSE Days((asOfDate - activeLots[1].date) \div MsPerDay)

isLongTermHolding(ls, securityId, asOfDate, longTermThresholdDays) ==
    LET holdingPeriod == getOldestHoldingPeriodDays(ls, securityId, asOfDate)
    IN  holdingPeriod # Null /\ holdingPeriod.days > longTermThresholdDays

RECURSIVE SumRemaining(_)
SumRemaining(s) ==
    IF s = <<>> THEN 0 ELSE s[1].remainingShares + SumRemaining(Tail(s))

(***************************************************************************)
(* The database as RebalancingService finds it after the migration         *)
(***************************************************************************)
Idle == [pc |-> "idle"]

NoCall == [op |-> "none"]

MaxCalls == 2

Calls == 1..MaxCalls

DbInit ==
    /\ strategies = <<>>
    /\ classTargets = <<>>
    /\ subTargets = <<>>
    /\ nextStrategyId = 1
    /\ nextClassTargetId = 1
    /\ nextSubTargetId = 1
    /\ calls = [c \in Calls |-> Idle]
    /\ done = NoCall
    /\ exclusions = <<>>
    /\ nextExclusionId = 1
    /\ report = NoCall

(***************************************************************************)
(* The ledger's operations                                                 *)
(***************************************************************************)
LedgerInit ==
    /\ lots = <<>>
    /\ nextLotId = 1
    /\ result = [op |-> "none"]
    /\ purchased = [s \in Securities |-> 0]
    /\ consumed = [s \in Securities |-> 0]

addPurchase(securityId, date, shares, totalCost, fees) ==
    /\ nextLotId <= MaxLots
    /\ LET lot == NewLot(nextLotId, date, shares, totalCost, fees)
           securityLots == LotsOf(lots, securityId)
       IN  /\ lots' = [s \in DOMAIN lots \cup {securityId} |->
                          IF s = securityId THEN PushAndSort(securityLots, lot)
                          ELSE lots[s]]
           /\ result' = [op |-> "addPurchase", securityId |-> securityId, lot |-> lot]
    /\ nextLotId' = nextLotId + 1
    /\ purchased' = [purchased EXCEPT ![securityId] = @ + shares]
    /\ UNCHANGED consumed
    /\ UNCHANGED exceptLedger

processSale(securityId, sharesToSell, salePrice) ==
    LET walk == SaleWalk(LotsOf(lots, securityId), 1, sharesToSell, 0, <<>>)
        actualSharesSold == ActualSharesSold(sharesToSell, walk.remaining)
        totalProceeds == actualSharesSold * salePrice
    IN  /\ lots' = IF securityId \in DOMAIN lots
                   THEN [lots EXCEPT ![securityId] = walk.lots] ELSE lots
        /\ result' = [op |-> "processSale",
                      securityId |-> securityId,
                      sharesToSell |-> sharesToSell,
                      salePrice |-> salePrice,
                      availableBefore |-> SumRemaining(LotsOf(lots, securityId)),
                      sharesSold |-> actualSharesSold,
                      totalCostBasis |-> walk.totalCostBasis,
                      totalProceeds |-> totalProceeds,
                      realizedGain |-> totalProceeds - walk.totalCostBasis,
                      lotsUsed |-> walk.lotsUsed]
        /\ consumed' = [consumed EXCEPT ![securityId] = @ + actualSharesSold]
        /\ UNCHANGED <<nextLotId, purchased>>
        /\ UNCHANGED exceptLedger

RECURSIVE SumShares(_)
SumShares(s) == IF s = <<>> THEN 0 ELSE s[1].shares + SumShares(Tail(s))

processTransfer(securityId, sharesToTransfer) ==
    LET walk == TransferWalk(LotsOf(lots, securityId), 1, sharesToTransfer,
                             <<>>, <<>>, nextLotId)
    IN  /\ lots' = IF securityId \in DOMAIN lots
                   THEN [lots EXCEPT ![securityId] = walk.lots] ELSE lots
        /\ result' = [op |-> "processTransfer",
                      securityId |-> securityId,
                      sharesToTransfer |-> sharesToTransfer,
                      from |-> walk.from,
                      transferredLots |-> walk.transferredLots]
        /\ consumed' = [consumed EXCEPT
                           ![securityId] = @ + SumShares(walk.transferredLots)]
        /\ UNCHANGED <<nextLotId, purchased>>
        /\ UNCHANGED exceptLedger

AddPurchase ==
    \E securityId \in Securities, p \in Purchases :
        addPurchase(securityId, p.date, p.shares, p.totalCost, p.fees)

ProcessSale ==
    \E securityId \in Securities, sharesToSell \in SaleQuantities,
       salePrice \in SalePrices :
        processSale(securityId, sharesToSell, salePrice)

ProcessTransfer ==
    \E securityId \in Securities, sharesToTransfer \in TransferQuantities :
        processTransfer(securityId, sharesToTransfer)

LedgerNext ==
    \/ AddPurchase
    \/ ProcessSale
    \/ ProcessTransfer

\* the state after construction: an empty ledger and an empty database
PerformanceInit == performance = NoCall

Init == LedgerInit /\ DbInit /\ PerformanceInit

SpecLedger == Init /\ [][LedgerNext]_vars

(***************************************************************************)
(* Properties of the ledger                                                *)
(***************************************************************************)
RECURSIVE SumSharesSold(_)
SumSharesSold(used) ==
    IF used = <<>> THEN 0 ELSE used[1].sharesSold + SumSharesSold(Tail(used))

\* the ledger lot of a security with a given id
LotById(securityId, id) ==
    LET ls == LotsOf(lots, securityId)
    IN  ls[CHOOSE i \in 1..Len(ls) : ls[i].id = id]

Minimum(a, b) == IF a < b THEN a ELSE b

\* C3: every lot keeps 0 <= remainingShares <= shares, and per security the
\* remaining shares add up to the shares purchased minus the shares reported
\* as sold or returned as transferred.
C3_LedgerBalance ==
    /\ \A sec \in DOMAIN lots : \A i \in 1..Len(lots[sec]) :
           /\ 0 <= lots[sec][i].remainingShares
           /\ lots[sec][i].remainingShares <= lots[sec][i].shares
    /\ \A sec \in Securities :
           SumRemaining(LotsOf(lots, sec)) = purchased[sec] - consumed[sec]

\* a transfer that followed a sale of the same security, shares still held
C3_Witness ==
    /\ result.op = "processTransfer"
    /\ result.transferredLots # <<>>
    /\ consumed[result.securityId] > SumShares(result.transferredLots)
    /\ SumRemaining(LotsOf(lots, result.securityId)) > 0

\* C4: a sale consumes lots oldest date first, lots of one date in the order
\* they were added (ids grow in that order): after the sale every lot dated
\* before a consumed lot, or added before it on the same date, is empty, and
\* lotsUsed is in that order.
C4_FifoByDate ==
    result.op = "processSale" =>
        LET ls == LotsOf(lots, result.securityId)
            used == result.lotsUsed
        IN  /\ \A k \in 1..Len(used) : \A i \in 1..Len(ls) :
                   \/ ls[i].date < used[k].lotDate
                   \/ (ls[i].date = used[k].lotDate /\ ls[i].id < used[k].lotId)
                   => ls[i].remainingShares = 0
            /\ \A j, k \in 1..Len(used) :
                   j < k =>
                       \/ used[j].lotDate < used[k].lotDate
                       \/ (used[j].lotDate = used[k].lotDate
                           /\ used[j].lotId < used[k].lotId)
            /\ \A k \in 1..Len(used) :
                   /\ used[k].sharesSold > 0
                   /\ used[k].lotDate = LotById(result.securityId, used[k].lotId).date

\* a sale across two lots of which the older was added later
C4_Witness ==
    /\ result.op = "processSale"
    /\ Len(result.lotsUsed) >= 2
    /\ result.lotsUsed[1].lotId > result.lotsUsed[2].lotId
    /\ result.lotsUsed[1].lotDate < result.lotsUsed[2].lotDate

\* C5: a sale reports sharesSold = min(requested, available before the call);
\* a sale of more than is available empties every lot of the security and
\* leaves none negative.
C5_SaleClamped ==
    result.op = "processSale" =>
        /\ result.sharesSold = Minimum(result.sharesToSell, result.availableBefore)
        /\ result.sharesSold <= result.sharesToSell
        /\ result.sharesSold <= result.availableBefore
        /\ result.sharesToSell > result.availableBefore =>
               \A i \in 1..Len(LotsOf(lots, result.securityId)) :
                   LotsOf(lots, result.securityId)[i].remainingShares = 0

\* a sale of more shares than the security's lots held
C5_Witness ==
    /\ result.op = "processSale"
    /\ result.availableBefore > 0
    /\ result.sharesToSell > result.availableBefore
    /\ Len(result.lotsUsed) >= 1

\* a sale of a security the ledger has never seen
C5_WitnessUnknown ==
    /\ result.op = "processSale"
    /\ result.securityId \notin DOMAIN lots
    /\ result.sharesToSell > 0

RECURSIVE CostOfLotsUsed(_, _)
CostOfLotsUsed(securityId, used) ==
    IF used = <<>> THEN 0
    ELSE used[1].sharesSold * LotById(securityId, used[1].lotId).costPerShare
         + CostOfLotsUsed(securityId, Tail(used))

\* the ledger and result of "buy 10 @ 100, buy 10 @ 120, sell 15 @ 130"
IsTwoLotExample ==
    /\ result.op = "processSale"
    /\ result.sharesToSell = 15
    /\ result.salePrice = 130
    /\ result.availableBefore = 20
    /\ LET ls == LotsOf(lots, result.securityId)
       IN  /\ Len(ls) = 2
           /\ ls[1].shares = 10 /\ ls[1].totalCost = 1000
           /\ ls[2].shares = 10 /\ ls[2].totalCost = 1200
           /\ ls[1].date < ls[2].date

\* C6: totalCostBasis is the sum over lotsUsed of shares taken x the lot's
\* costPerShare, totalProceeds = sharesSold x salePrice, realizedGain =
\* totalProceeds - totalCostBasis, the shares of lotsUsed add up to
\* sharesSold; buy 10 @ 100, buy 10 @ 120, sell 15 @ 130 gives 1600, 1950, 350.
C6_SaleAmounts ==
    result.op = "processSale" =>
        /\ result.totalCostBasis = CostOfLotsUsed(result.securityId, result.lotsUsed)
        /\ result.totalProceeds = result.sharesSold * result.salePrice
        /\ result.realizedGain = result.totalProceeds - result.totalCostBasis
        /\ SumSharesSold(result.lotsUsed) = result.sharesSold
        /\ IsTwoLotExample =>
               /\ result.totalCostBasis = 1600
               /\ result.totalProceeds = 1950
               /\ result.realizedGain = 350

C6_Witness == IsTwoLotExample /\ Len(result.lotsUsed) = 2

\* C7: every lot returned by processTransfer keeps the date of its source lot
\* and carries fees = sourceLot.fees x sharesTaken / sourceLot.shares.
C7_TransferDateAndFees ==
    result.op = "processTransfer" =>
        \A k \in 1..Len(result.transferredLots) :
            LET t == result.transferredLots[k]
                sourceLot == LotById(result.securityId, result.from[k])
            IN  /\ t.date = sourceLot.date
                /\ t.fees = BigDiv(sourceLot.fees * t.shares, sourceLot.shares)

\* the dates of the lots of a security that still hold shares
ActiveDates(securityId) ==
    LET ls == LotsOf(lots, securityId)
    IN  {ls[i].date : i \in {j \in 1..Len(ls) : ls[j].remainingShares > 0}}

EarliestActiveDate(securityId) ==
    CHOOSE d \in ActiveDates(securityId) : \A e \in ActiveDates(securityId) : d <= e

\* C8: getOldestHoldingPeriodDays is null exactly when no lot of the security
\* holds shares, and otherwise the whole days from the earliest-dated lot
\* that still holds shares to asOf; isLongTermHolding is true exactly when
\* that number is strictly greater than the threshold.
C8_HoldingPeriod ==
    \A sec \in Securities, asOf \in AsOfDates :
        LET value == getOldestHoldingPeriodDays(lots, sec, asOf)
        IN  /\ (value = Null) <=> (ActiveDates(sec) = {})
            /\ ActiveDates(sec) # {} =>
                   /\ ~value.isNull
                   /\ value.days * MsPerDay <= asOf - EarliestActiveDate(sec)
                   /\ asOf - EarliestActiveDate(sec) < (value.days + 1) * MsPerDay
            /\ \A threshold \in ThresholdDays :
                   isLongTermHolding(lots, sec, asOf, threshold)
                       <=> (ActiveDates(sec) # {} /\ value.days > threshold)

\* the oldest lot is sold out and a lot added before it, with a later date,
\* still holds shares
C8_Witness ==
    /\ result.op = "processSale"
    /\ LET ls == LotsOf(lots, result.securityId)
       IN  /\ Len(ls) >= 2
           /\ ls[1].shares > 0 /\ ls[1].remainingShares = 0
           /\ ls[2].remainingShares > 0
           /\ ls[2].date > ls[1].date
           /\ ls[2].id < ls[1].id

(***************************************************************************)
(* RebalancingService: strategy management.  Every await of a Prisma call  *)
(* is one step; a call slot holds the position and the locals of a call.   *)
(***************************************************************************)
Users == {"u1", "u2"}

MaxStrategies == 2

StrategyIds == 1..MaxStrategies

\* dto.isActive is optional
IsActiveDto == {"true", "false", "absent"}

\* an optional number of a DTO: absent, or given
Absent == {}

Given(x) == {x}

\* dto.driftThreshold ?? 5.0
DefaultDriftThreshold == 5

OrDefault(optional, default) ==
    IF optional = Absent THEN default ELSE CHOOSE x \in optional : TRUE

\* the table with one more row / with a row changed / without a row
Insert(tbl, id, row) == [k \in DOMAIN tbl \cup {id} |-> IF k = id THEN row ELSE tbl[k]]

Remove(tbl, ids) == [k \in DOMAIN tbl \ ids |-> tbl[k]]

\* rebalancingStrategy.findFirst({ where: { id: strategyId, userId } })
FindStrategy(tbl, userId, strategyId) ==
    strategyId \in DOMAIN tbl /\ tbl[strategyId].userId = userId

\* a plausible slip: the other strategies are left as they are
DeactivateNone(tbl, userId) == tbl

\* rebalancingStrategy.updateMany({ where: { userId }, data: { isActive: false } })
DeactivateAll(tbl, userId) ==
    [id \in DOMAIN tbl |->
        IF tbl[id].userId = userId THEN [tbl[id] EXCEPT !.isActive = FALSE]
        ELSE tbl[id]]

\* rebalancingStrategy.updateMany({ where: { userId, NOT: { id: strategyId } }, ... })
DeactivateOthers(tbl, userId, strategyId) ==
    [id \in DOMAIN tbl |->
        IF tbl[id].userId = userId /\ id # strategyId
        THEN [tbl[id] EXCEPT !.isActive = FALSE]
        ELSE tbl[id]]

\* the targets of a strategy, and the sub-class targets below class targets
TargetsOf(tbl, strategyId) == {t \in DOMAIN tbl : tbl[t].strategyId = strategyId}

SubTargetsOf(tbl, classTargetIds) ==
    {t \in DOMAIN tbl : tbl[t].assetClassTargetId \in classTargetIds}

Begin(c, locals) ==
    /\ calls' = [calls EXCEPT ![c] = locals]
    /\ done' = NoCall

Continue(c, locals) ==
    /\ calls' = [calls EXCEPT ![c] = locals]
    /\ UNCHANGED done

Complete(c, outcome) ==
    /\ calls' = [calls EXCEPT ![c] = Idle]
    /\ done' = outcome

\* createStrategy: updateMany when dto.isActive, then create
CreateStrategy(c, userId, isActive, driftThreshold) ==
    /\ calls[c] = Idle
    /\ nextStrategyId
         + Cardinality({k \in Calls : calls[k].pc = "createStrategy.create"})
         <= MaxStrategies
    /\ IF isActive = "true"
       THEN /\ strategies' = DeactivateAll(strategies, userId)
            /\ Begin(c, [pc |-> "createStrategy.create", userId |-> userId,
                          driftThreshold |-> driftThreshold])
            /\ UNCHANGED nextStrategyId
       ELSE /\ strategies' = Insert(strategies, nextStrategyId,
                                    [userId |-> userId, isActive |-> FALSE,
                                     driftThreshold |->
                                         OrDefault(driftThreshold, DefaultDriftThreshold)])
            /\ nextStrategyId' = nextStrategyId + 1
            /\ Complete(c, [op |-> "createStrategy", userId |-> userId,
                            strategyId |-> nextStrategyId, outcome |-> "ok"])
    /\ UNCHANGED <<classTargets, subTargets, nextClassTargetId, nextSubTargetId>>
    /\ UNCHANGED exceptDb

CreateStrategyCreate(c) ==
    /\ calls[c].pc = "createStrategy.create"
    /\ strategies' = Insert(strategies, nextStrategyId,
                            [userId |-> calls[c].userId, isActive |-> TRUE,
                             driftThreshold |->
                                 OrDefault(calls[c].driftThreshold, DefaultDriftThreshold)])
    /\ nextStrategyId' = nextStrategyId + 1
    /\ Complete(c, [op |-> "createStrategy", userId |-> calls[c].userId,
                    strategyId |-> nextStrategyId, outcome |-> "ok"])
    /\ UNCHANGED <<classTargets, subTargets, nextClassTargetId, nextSubTargetId>>
    /\ UNCHANGED exceptDb

\* updateStrategy: findFirst, updateMany when dto.isActive, update
UpdateStrategy(c, userId, strategyId, isActive) ==
    /\ calls[c] = Idle
    /\ IF ~FindStrategy(strategies, userId, strategyId)
       THEN Complete(c, [op |-> "updateStrategy", userId |-> userId,
                         strategyId |-> strategyId, outcome |-> "NotFound"])
       ELSE Begin(c, [pc |-> IF isActive = "true" THEN "updateStrategy.updateMany"
                                                  ELSE "updateStrategy.update",
                      userId |-> userId, strategyId |-> strategyId,
                      isActive |-> isActive])
    /\ UNCHANGED <<strategies, classTargets, subTargets, nextStrategyId,
                   nextClassTargetId, nextSubTargetId>>
    /\ UNCHANGED exceptDb

UpdateStrategyUpdateMany(c) ==
    /\ calls[c].pc = "updateStrategy.updateMany"
    /\ strategies' = DeactivateOthers(strategies, calls[c].userId, calls[c].strategyId)
    /\ Continue(c, [calls[c] EXCEPT !.pc = "updateStrategy.update"])
    /\ UNCHANGED <<classTargets, subTargets, nextStrategyId,
                   nextClassTargetId, nextSubTargetId>>
    /\ UNCHANGED exceptDb

\* rebalancingStrategy.update({ where: { id }, data: dto }): throws when the row is gone
UpdateStrategyUpdate(c) ==
    /\ calls[c].pc = "updateStrategy.update"
    /\ LET id == calls[c].strategyId
       IN  IF id \notin DOMAIN strategies
           THEN /\ UNCHANGED strategies
                /\ Complete(c, [op |-> "updateStrategy", userId |-> calls[c].userId,
                                strategyId |-> id, outcome |-> "DbError"])
           ELSE /\ strategies' =
                       IF calls[c].isActive = "absent" THEN strategies
                       ELSE [strategies EXCEPT
                                ![id].isActive = (calls[c].isActive = "true")]
                /\ Complete(c, [op |-> "updateStrategy", userId |-> calls[c].userId,
                                strategyId |-> id, outcome |-> "ok"])
    /\ UNCHANGED <<classTargets, subTargets, nextStrategyId,
                   nextClassTargetId, nextSubTargetId>>
    /\ UNCHANGED exceptDb

\* deleteStrategy: findFirst, delete (ON DELETE CASCADE takes its targets)
DeleteStrategy(c, userId, strategyId) ==
    /\ calls[c] = Idle
    /\ IF ~FindStrategy(strategies, userId, strategyId)
       THEN Complete(c, [op |-> "deleteStrategy", userId |-> userId,
                         strategyId |-> strategyId, outcome |-> "NotFound"])
       ELSE Begin(c, [pc |-> "deleteStrategy.delete",
                      userId |-> userId, strategyId |-> strategyId])
    /\ UNCHANGED <<strategies, classTargets, subTargets, nextStrategyId,
                   nextClassTargetId, nextSubTargetId>>
    /\ UNCHANGED exceptDb

DeleteStrategyDelete(c) ==
    /\ calls[c].pc = "deleteStrategy.delete"
    /\ LET id == calls[c].strategyId
       IN  IF id \notin DOMAIN strategies
           THEN /\ UNCHANGED <<strategies, classTargets, subTargets>>
                /\ Complete(c, [op |-> "deleteStrategy", userId |-> calls[c].userId,
                                strategyId |-> id, outcome |-> "DbError"])
           ELSE /\ strategies' = Remove(strategies, {id})
                /\ classTargets' = Remove(classTargets, TargetsOf(classTargets, id))
                /\ subTargets' = Remove(subTargets,
                                        SubTargetsOf(subTargets, TargetsOf(classTargets, id)))
                /\ Complete(c, [op |-> "deleteStrategy", userId |-> calls[c].userId,
                                strategyId |-> id, outcome |-> "ok"])
    /\ UNCHANGED <<nextStrategyId, nextClassTargetId, nextSubTargetId>>
    /\ UNCHANGED exceptDb

\* activateStrategy: findFirst, updateMany, update
ActivateStrategy(c, userId, strategyId) ==
    /\ calls[c] = Idle
    /\ IF ~FindStrategy(strategies, userId, strategyId)
       THEN Complete(c, [op |-> "activateStrategy", userId |-> userId,
                         strategyId |-> strategyId, outcome |-> "NotFound"])
       ELSE Begin(c, [pc |-> "activateStrategy.updateMany",
                      userId |-> userId, strategyId |-> strategyId])
    /\ UNCHANGED <<strategies, classTargets, subTargets, nextStrategyId,
                   nextClassTargetId, nextSubTargetId>>
    /\ UNCHANGED exceptDb

ActivateStrategyUpdateMany(c) ==
    /\ calls[c].pc = "activateStrategy.updateMany"
    /\ strategies' = DeactivateAll(strategies, calls[c].userId)
    /\ Continue(c, [calls[c] EXCEPT !.pc = "activateStrategy.update"])
    /\ UNCHANGED <<classTargets, subTargets, nextStrategyId,
                   nextClassTargetId, nextSubTargetId>>
    /\ UNCHANGED exceptDb

ActivateStrategyUpdate(c) ==
    /\ calls[c].pc = "activateStrategy.update"
    /\ LET id == calls[c].strategyId
       IN  IF id \notin DOMAIN strategies
           THEN /\ UNCHANGED strategies
                /\ Complete(c, [op |-> "activateStrategy", userId |-> calls[c].userId,
                                strategyId |-> id, outcome |-> "DbError"])
           ELSE /\ strategies' = [strategies EXCEPT ![id].isActive = TRUE]
                /\ Complete(c, [op |-> "activateStrategy", userId |-> calls[c].userId,
                                strategyId |-> id, outcome |-> "ok"])
    /\ UNCHANGED <<classTargets, subTargets, nextStrategyId,
                   nextClassTargetId, nextSubTargetId>>
    /\ UNCHANGED exceptDb

\* one step of a strategy-management call in slot c
StrategyStep(c) ==
    \/ \E userId \in Users, isActive \in IsActiveDto :
           CreateStrategy(c, userId, isActive, Absent)
    \/ CreateStrategyCreate(c)
    \/ \E userId \in Users, strategyId \in StrategyIds, isActive \in IsActiveDto :
           UpdateStrategy(c, userId, strategyId, isActive)
    \/ UpdateStrategyUpdateMany(c)
    \/ UpdateStrategyUpdate(c)
    \/ \E userId \in Users, strategyId \in StrategyIds :
           DeleteStrategy(c, userId, strategyId)
    \/ DeleteStrategyDelete(c)
    \/ \E userId \in Users, strategyId \in StrategyIds :
           ActivateStrategy(c, userId, strategyId)
    \/ ActivateStrategyUpdateMany(c)
    \/ ActivateStrategyUpdate(c)

\* the calls run one after the other: a single slot
SequentialCalls == {1}

StrategiesNext == \E c \in SequentialCalls : StrategyStep(c)

SpecStrategies == Init /\ [][StrategiesNext]_vars

\* the calls of two requests interleave at their awaits
StrategiesConcurrentNext == \E c \in Calls : StrategyStep(c)

SpecStrategiesConcurrent == Init /\ [][StrategiesConcurrentNext]_vars

\* the active strategies of a user
ActiveOf(userId) ==
    {id \in DOMAIN strategies :
        strategies[id].userId = userId /\ strategies[id].isActive}

AllIdle == \A c \in Calls : calls[c] = Idle

\* C1: with the calls run one after the other, every user has at most one
\* active strategy, and a completed activateStrategy(s) leaves exactly s active.
C1_OneActiveSequential ==
    /\ \A userId \in Users : Cardinality(ActiveOf(userId)) <= 1
    /\ (done.op = "activateStrategy" /\ done.outcome = "ok")
           => ActiveOf(done.userId) = {done.strategyId}

\* activateStrategy completed for a user who owns a second strategy
C1_Witness ==
    /\ done.op = "activateStrategy"
    /\ done.outcome = "ok"
    /\ \E id \in DOMAIN strategies :
           /\ id # done.strategyId
           /\ strategies[id].userId = done.userId
           /\ id > done.strategyId

\* C2: once concurrent activating calls have all completed, every user has
\* at most one active strategy.
C2_OneActiveConcurrent ==
    AllIdle => \A userId \in Users : Cardinality(ActiveOf(userId)) <= 1

(***************************************************************************)
(* RebalancingService: asset class targets and sub-class targets           *)
(***************************************************************************)
MaxClassTargets == 2

MaxSubTargets == 2

ClassTargetIds == 1..MaxClassTargets

SubTargetIds == 1..MaxSubTargets

\* ASSET_CLASS_MAPPING of @ghostfolio/common/config
ASSET_CLASS_MAPPING ==
    [ALTERNATIVE_INVESTMENT |-> {"COLLECTIBLE"},
     COMMODITY |-> {"COMMODITY", "PRECIOUS_METAL"},
     DEBT |-> {"BOND", "DEBT_FUND", "FIXED_DEPOSIT"},
     EQUITY |-> {"ETF", "MUTUALFUND", "PRIVATE_EQUITY", "STOCK"},
     FIXED_INCOME |-> {"BOND"},
     LIQUIDITY |-> {"CASH", "CRYPTOCURRENCY"},
     PRECIOUS_METALS |-> {"GOLD_22K", "GOLD_24K", "GOLD_ETF", "SILVER_BAR"},
     REAL_ESTATE |-> {"HOUSE", "PLOT"}]

\* the asset classes and sub-classes the calls are made with
TargetClasses == {"EQUITY", "DEBT"}

TargetSubClasses == {"STOCK", "ETF", "BOND"}

\* targetPercent of the create DTOs (validated to 0..100) and of the update
\* calls (a bare number of the request body)
CreatePercents == {40, 60}

UpdatePercents == {-40, 60}

RECURSIVE SumPercent(_, _)
SumPercent(tbl, ids) ==
    IF ids = {} THEN 0
    ELSE LET t == CHOOSE x \in ids : TRUE
         IN  tbl[t].targetPercent + SumPercent(tbl, ids \ {t})

\* strategy.assetClassTargets.reduce((sum, t) => sum + t.targetPercent, 0),
\* with .filter(t => t.id !== targetId) before it in the update
ClassSum(tbl, strategyId, exceptIds) ==
    SumPercent(tbl, TargetsOf(tbl, strategyId) \ exceptIds)

SubSum(tbl, assetClassTargetId, exceptIds) ==
    SumPercent(tbl, SubTargetsOf(tbl, {assetClassTargetId}) \ exceptIds)

\* a plausible slip: only the stored sum is compared with 100
StoredSumExceeds(sum, targetPercent) == sum > 100

\* if (currentSum + dto.targetPercent > 100) / if (otherSum + targetPercent > 100)
ExceedsTotal(sum, targetPercent) == sum + targetPercent > 100

\* assetClassTarget.findFirst({ where: { id } }) and target.strategy.userId === userId
FindClassTarget(userId, targetId) ==
    /\ targetId \in DOMAIN classTargets
    /\ strategies[classTargets[targetId].strategyId].userId = userId

FindSubTarget(userId, targetId) ==
    /\ targetId \in DOMAIN subTargets
    /\ FindClassTarget(userId, subTargets[targetId].assetClassTargetId)

\* the create calls in flight that will need a fresh id
Creating(pc) == Cardinality({k \in Calls : calls[k].pc = pc})

\* createAssetClassTarget: findFirst with the targets, the sum check, create
CreateAssetClassTarget(c, userId, strategyId, assetClass, targetPercent) ==
    /\ calls[c] = Idle
    /\ nextClassTargetId + Creating("createAssetClassTarget.create") <= MaxClassTargets
    /\ LET outcome == [op |-> "createAssetClassTarget"]
       IN  IF ~FindStrategy(strategies, userId, strategyId)
           THEN Complete(c, outcome @@ [outcome |-> "NotFound"])
           ELSE IF ExceedsTotal(ClassSum(classTargets, strategyId, {}), targetPercent)
           THEN Complete(c, outcome @@ [outcome |-> "BadRequest"])
           ELSE Begin(c, [pc |-> "createAssetClassTarget.create", strategyId |-> strategyId, assetClass |-> assetClass,
                          targetPercent |-> targetPercent])
    /\ UNCHANGED <<strategies, classTargets, subTargets, nextStrategyId,
                   nextClassTargetId, nextSubTargetId>>
    /\ UNCHANGED exceptDb

\* assetClassTarget.create: the foreign key needs the strategy, and
\* (strategyId, assetClass) is unique
CreateAssetClassTargetCreate(c) ==
    /\ calls[c].pc = "createAssetClassTarget.create"
    /\ LET outcome == [op |-> "createAssetClassTarget"]
       IN  IF \/ calls[c].strategyId \notin DOMAIN strategies
              \/ \E t \in TargetsOf(classTargets, calls[c].strategyId) :
                     classTargets[t].assetClass = calls[c].assetClass
           THEN /\ UNCHANGED <<classTargets, nextClassTargetId>>
                /\ Complete(c, outcome @@ [outcome |-> "DbError"])
           ELSE /\ classTargets' = Insert(classTargets, nextClassTargetId,
                                          [strategyId |-> calls[c].strategyId,
                                           assetClass |-> calls[c].assetClass,
                                           targetPercent |-> calls[c].targetPercent])
                /\ nextClassTargetId' = nextClassTargetId + 1
                /\ Complete(c, outcome @@ [outcome |-> "ok"])
    /\ UNCHANGED <<strategies, subTargets, nextStrategyId, nextSubTargetId>>
    /\ UNCHANGED exceptDb

\* updateAssetClassTarget: findFirst with the strategy's targets, the sum check, update
UpdateAssetClassTarget(c, userId, targetId, targetPercent) ==
    /\ calls[c] = Idle
    /\ LET outcome == [op |-> "updateAssetClassTarget"]
       IN  IF ~FindClassTarget(userId, targetId)
           THEN Complete(c, outcome @@ [outcome |-> "NotFound"])
           ELSE IF ExceedsTotal(ClassSum(classTargets, classTargets[targetId].strategyId,
                                         {targetId}),
                                targetPercent)
           THEN Complete(c, outcome @@ [outcome |-> "BadRequest"])
           ELSE Begin(c, [pc |-> "updateAssetClassTarget.update", targetId |-> targetId, targetPercent |-> targetPercent])
    /\ UNCHANGED <<strategies, classTargets, subTargets, nextStrategyId,
                   nextClassTargetId, nextSubTargetId>>
    /\ UNCHANGED exceptDb

UpdateAssetClassTargetUpdate(c) ==
    /\ calls[c].pc = "updateAssetClassTarget.update"
    /\ LET outcome == [op |-> "updateAssetClassTarget"]
       IN  IF calls[c].targetId \notin DOMAIN classTargets
           THEN /\ UNCHANGED classTargets
                /\ Complete(c, outcome @@ [outcome |-> "DbError"])
           ELSE /\ classTargets' = [classTargets EXCEPT
                       ![calls[c].targetId].targetPercent = calls[c].targetPercent]
                /\ Complete(c, outcome @@ [outcome |-> "ok"])
    /\ UNCHANGED <<strategies, subTargets, nextStrategyId,
                   nextClassTargetId, nextSubTargetId>>
    /\ UNCHANGED exceptDb

\* deleteAssetClassTarget: findFirst, delete (ON DELETE CASCADE takes its sub-class targets)
DeleteAssetClassTarget(c, userId, targetId) ==
    /\ calls[c] = Idle
    /\ IF ~FindClassTarget(userId, targetId)
       THEN Complete(c, [op |-> "deleteAssetClassTarget", outcome |-> "NotFound"])
       ELSE Begin(c, [pc |-> "deleteAssetClassTarget.delete", targetId |-> targetId])
    /\ UNCHANGED <<strategies, classTargets, subTargets, nextStrategyId,
                   nextClassTargetId, nextSubTargetId>>
    /\ UNCHANGED exceptDb

DeleteAssetClassTargetDelete(c) ==
    /\ calls[c].pc = "deleteAssetClassTarget.delete"
    /\ LET outcome == [op |-> "deleteAssetClassTarget"]
       IN  IF calls[c].targetId \notin DOMAIN classTargets
           THEN /\ UNCHANGED <<classTargets, subTargets>>
                /\ Complete(c, outcome @@ [outcome |-> "DbError"])
           ELSE /\ classTargets' = Remove(classTargets, {calls[c].targetId})
                /\ subTargets' = Remove(subTargets,
                                        SubTargetsOf(subTargets, {calls[c].targetId}))
                /\ Complete(c, outcome @@ [outcome |-> "ok"])
    /\ UNCHANGED <<strategies, nextStrategyId, nextClassTargetId, nextSubTargetId>>
    /\ UNCHANGED exceptDb

\* createSubClassTarget: findFirst, the sub-class and sum checks, create
CreateSubClassTarget(c, userId, assetClassTargetId, assetSubClass, targetPercent) ==
    /\ calls[c] = Idle
    /\ nextSubTargetId + Creating("createSubClassTarget.create") <= MaxSubTargets
    /\ LET outcome == [op |-> "createSubClassTarget"]
       IN  IF ~FindClassTarget(userId, assetClassTargetId)
           THEN Complete(c, outcome @@ [outcome |-> "NotFound"])
           ELSE IF assetSubClass \notin
                       ASSET_CLASS_MAPPING[classTargets[assetClassTargetId].assetClass]
           THEN Complete(c, outcome @@ [outcome |-> "BadRequest"])
           ELSE IF ExceedsTotal(SubSum(subTargets, assetClassTargetId, {}), targetPercent)
           THEN Complete(c, outcome @@ [outcome |-> "BadRequest"])
           ELSE Begin(c, [pc |-> "createSubClassTarget.create", assetClassTargetId |-> assetClassTargetId,
                          assetSubClass |-> assetSubClass,
                          targetPercent |-> targetPercent])
    /\ UNCHANGED <<strategies, classTargets, subTargets, nextStrategyId,
                   nextClassTargetId, nextSubTargetId>>
    /\ UNCHANGED exceptDb

CreateSubClassTargetCreate(c) ==
    /\ calls[c].pc = "createSubClassTarget.create"
    /\ LET outcome == [op |-> "createSubClassTarget"]
       IN  IF \/ calls[c].assetClassTargetId \notin DOMAIN classTargets
              \/ \E t \in SubTargetsOf(subTargets, {calls[c].assetClassTargetId}) :
                     subTargets[t].assetSubClass = calls[c].assetSubClass
           THEN /\ UNCHANGED <<subTargets, nextSubTargetId>>
                /\ Complete(c, outcome @@ [outcome |-> "DbError"])
           ELSE /\ subTargets' = Insert(subTargets, nextSubTargetId,
                       [assetClassTargetId |-> calls[c].assetClassTargetId,
                        assetSubClass |-> calls[c].assetSubClass,
                        targetPercent |-> calls[c].targetPercent])
                /\ nextSubTargetId' = nextSubTargetId + 1
                /\ Complete(c, outcome @@ [outcome |-> "ok"])
    /\ UNCHANGED <<strategies, classTargets, nextStrategyId, nextClassTargetId>>
    /\ UNCHANGED exceptDb

\* updateSubClassTarget: findFirst with the class target's sub-class targets, the sum check, update
UpdateSubClassTarget(c, userId, targetId, targetPercent) ==
    /\ calls[c] = Idle
    /\ LET outcome == [op |-> "updateSubClassTarget"]
       IN  IF ~FindSubTarget(userId, targetId)
           THEN Complete(c, outcome @@ [outcome |-> "NotFound"])
           ELSE IF ExceedsTotal(SubSum(subTargets, subTargets[targetId].assetClassTargetId,
                                       {targetId}),
                                targetPercent)
           THEN Complete(c, outcome @@ [outcome |-> "BadRequest"])
           ELSE Begin(c, [pc |-> "updateSubClassTarget.update", targetId |-> targetId, targetPercent |-> targetPercent])
    /\ UNCHANGED <<strategies, classTargets, subTargets, nextStrategyId,
                   nextClassTargetId, nextSubTargetId>>
    /\ UNCHANGED exceptDb

UpdateSubClassTargetUpdate(c) ==
    /\ calls[c].pc = "updateSubClassTarget.update"
    /\ LET outcome == [op |-> "updateSubClassTarget"]
       IN  IF calls[c].targetId \notin DOMAIN subTargets
           THEN /\ UNCHANGED subTargets
                /\ Complete(c, outcome @@ [outcome |-> "DbError"])
           ELSE /\ subTargets' = [subTargets EXCEPT
                       ![calls[c].targetId].targetPercent = calls[c].targetPercent]
                /\ Complete(c, outcome @@ [outcome |-> "ok"])
    /\ UNCHANGED <<strategies, classTargets, nextStrategyId,
                   nextClassTargetId, nextSubTargetId>>
    /\ UNCHANGED exceptDb

\* deleteSubClassTarget: findFirst, delete
DeleteSubClassTarget(c, userId, targetId) ==
    /\ calls[c] = Idle
    /\ IF ~FindSubTarget(userId, targetId)
       THEN Complete(c, [op |-> "deleteSubClassTarget", outcome |-> "NotFound"])
       ELSE Begin(c, [pc |-> "deleteSubClassTarget.delete", targetId |-> targetId])
    /\ UNCHANGED <<strategies, classTargets, subTargets, nextStrategyId,
                   nextClassTargetId, nextSubTargetId>>
    /\ UNCHANGED exceptDb

DeleteSubClassTargetDelete(c) ==
    /\ calls[c].pc = "deleteSubClassTarget.delete"
    /\ LET outcome == [op |-> "deleteSubClassTarget"]
       IN  IF calls[c].targetId \notin DOMAIN subTargets
           THEN /\ UNCHANGED subTargets
                /\ Complete(c, outcome @@ [outcome |-> "DbError"])
           ELSE /\ subTargets' = Remove(subTargets, {calls[c].targetId})
                /\ Complete(c, outcome @@ [outcome |-> "ok"])
    /\ UNCHANGED <<strategies, classTargets, nextStrategyId,
                   nextClassTargetId, nextSubTargetId>>
    /\ UNCHANGED exceptDb

\* one step of a target-management call in slot c
TargetStep(c) ==
    \/ \E userId \in Users, strategyId \in StrategyIds,
          assetClass \in TargetClasses, targetPercent \in CreatePercents :
           CreateAssetClassTarget(c, userId, strategyId, assetClass, targetPercent)
    \/ CreateAssetClassTargetCreate(c)
    \/ \E userId \in Users, targetId \in ClassTargetIds, targetPercent \in UpdatePercents :
           UpdateAssetClassTarget(c, userId, targetId, targetPercent)
    \/ UpdateAssetClassTargetUpdate(c)
    \/ \E userId \in Users, targetId \in ClassTargetIds :
           DeleteAssetClassTarget(c, userId, targetId)
    \/ DeleteAssetClassTargetDelete(c)
    \/ \E userId \in Users, assetClassTargetId \in ClassTargetIds,
          assetSubClass \in TargetSubClasses, targetPercent \in CreatePercents :
           CreateSubClassTarget(c, userId, assetClassTargetId, assetSubClass,
                                targetPercent)
    \/ CreateSubClassTargetCreate(c)
    \/ \E userId \in Users, targetId \in SubTargetIds, targetPercent \in UpdatePercents :
           UpdateSubClassTarget(c, userId, targetId, targetPercent)
    \/ UpdateSubClassTargetUpdate(c)
    \/ \E userId \in Users, targetId \in SubTargetIds :
           DeleteSubClassTarget(c, userId, targetId)
    \/ DeleteSubClassTargetDelete(c)

\* the strategies the targets hang on are created as well
TargetsNext ==
    \E c \in SequentialCalls :
        \/ TargetStep(c)
        \/ \E userId \in Users : CreateStrategy(c, userId, "absent", Absent)

SpecTargets == Init /\ [][TargetsNext]_vars

\* the user whose calls overlap
ConcurrentUsers == {"u1"}

\* target create and update calls of one user, their steps interleaved
TargetsConcurrentNext ==
    \E c \in Calls :
        \/ \E userId \in ConcurrentUsers, strategyId \in StrategyIds,
              assetClass \in TargetClasses, targetPercent \in CreatePercents :
               CreateAssetClassTarget(c, userId, strategyId, assetClass, targetPercent)
        \/ CreateAssetClassTargetCreate(c)
        \/ \E userId \in ConcurrentUsers, targetId \in ClassTargetIds,
              targetPercent \in UpdatePercents :
               UpdateAssetClassTarget(c, userId, targetId, targetPercent)
        \/ UpdateAssetClassTargetUpdate(c)
        \/ \E userId \in ConcurrentUsers, assetClassTargetId \in ClassTargetIds,
              assetSubClass \in TargetSubClasses, targetPercent \in CreatePercents :
               CreateSubClassTarget(c, userId, assetClassTargetId, assetSubClass,
                                    targetPercent)
        \/ CreateSubClassTargetCreate(c)
        \/ \E userId \in ConcurrentUsers, targetId \in SubTargetIds,
              targetPercent \in UpdatePercents :
               UpdateSubClassTarget(c, userId, targetId, targetPercent)
        \/ UpdateSubClassTargetUpdate(c)
        \/ \E userId \in ConcurrentUsers : CreateStrategy(c, userId, "absent", Absent)

SpecTargetsConcurrent == Init /\ [][TargetsConcurrentNext]_vars

\* every strategy's class targets, and every class target's sub-class
\* targets, sum to at most 100
SumsWithin100 ==
    /\ \A strategyId \in DOMAIN strategies :
           ClassSum(classTargets, strategyId, {}) <= 100
    /\ \A targetId \in DOMAIN classTargets :
           SubSum(subTargets, targetId, {}) <= 100

\* a create or update call gets past its sum check in this step only if the
\* stored targets of its scope, with the requested percentage, stay within 100
PassesOnlyWithin100 ==
    \A c \in Calls :
        (calls[c] = Idle /\ calls'[c] # Idle) =>
            /\ calls'[c].pc = "createAssetClassTarget.create" =>
                   ClassSum(classTargets, calls'[c].strategyId, {})
                       + calls'[c].targetPercent <= 100
            /\ calls'[c].pc = "updateAssetClassTarget.update" =>
                   ClassSum(classTargets, classTargets[calls'[c].targetId].strategyId,
                            {calls'[c].targetId})
                       + calls'[c].targetPercent <= 100
            /\ calls'[c].pc = "createSubClassTarget.create" =>
                   SubSum(subTargets, calls'[c].assetClassTargetId, {})
                       + calls'[c].targetPercent <= 100
            /\ calls'[c].pc = "updateSubClassTarget.update" =>
                   SubSum(subTargets, subTargets[calls'[c].targetId].assetClassTargetId,
                          {calls'[c].targetId})
                       + calls'[c].targetPercent <= 100

\* a call that ends with the validation error has stored nothing
RejectedStoresNothing ==
    (done'.op # "none" /\ done'.outcome = "BadRequest")
        => UNCHANGED <<classTargets, subTargets>>

C10_SumsConcurrent == AllIdle => SumsWithin100

\* C11: after any sequence of create and update calls on class targets and
\* sub-class targets, every stored targetPercent lies in the range 0 to 100.
C11_PercentInRange ==
    /\ \A targetId \in DOMAIN classTargets :
           /\ classTargets[targetId].targetPercent >= 0
           /\ classTargets[targetId].targetPercent <= 100
    /\ \A targetId \in DOMAIN subTargets :
           /\ subTargets[targetId].targetPercent >= 0
           /\ subTargets[targetId].targetPercent <= 100

(***************************************************************************)
(* JavaScript numbers of the analysis, as exact fractions [n, d] in lowest *)
(* terms with d > 0 (the rounding of the doubles is left out)              *)
(***************************************************************************)
Abs(x) == IF x < 0 THEN -x ELSE x

RECURSIVE GCD(_, _)
GCD(a, b) == IF b = 0 THEN a ELSE GCD(b, a % b)

Fraction(n, d) ==
    LET g == GCD(Abs(n), Abs(d))
        sign == IF d < 0 THEN -1 ELSE 1
    IN  [n |-> (sign * n) \div g, d |-> (sign * d) \div g]

Num(i) == [n |-> i, d |-> 1]

Plus(a, b) == Fraction(a.n * b.d + b.n * a.d, a.d * b.d)

Minus(a, b) == Fraction(a.n * b.d - b.n * a.d, a.d * b.d)

Times(a, b) == Fraction(a.n * b.n, a.d * b.d)

\* a / b for b other than 0
Over(a, b) == Fraction(a.n * b.d, a.d * b.n)

\* Math.abs
MathAbs(a) == [n |-> Abs(a.n), d |-> a.d]

\* Math.floor
MathFloor(a) == a.n \div a.d

\* Math.max
MathMax(a, b) == IF a.n * b.d >= b.n * a.d THEN a ELSE b

Less(a, b) == a.n * b.d < b.n * a.d

AtLeast(a, b) == a.n * b.d >= b.n * a.d

(***************************************************************************)
(* RebalancingService: exclusions                                          *)
(***************************************************************************)
MaxExclusions == 2

\* dto.excludeFromCalculation ?? existing, dto.neverSell ?? existing
FlagOr(optional, default) == IF optional = "absent" THEN default ELSE optional = "true"

\* a plausible slip: isActive is not looked at
StrategiesOfUser(userId) == {id \in DOMAIN strategies : strategies[id].userId = userId}

\* getActiveStrategy: rebalancingStrategy.findFirst({ where: { userId, isActive: true } })
ActiveStrategies(userId) ==
    {id \in DOMAIN strategies : strategies[id].userId = userId /\ strategies[id].isActive}

\* the strategies that strategyId ? findFirst({ id, userId }) : getActiveStrategy(userId)
\* can return; strategyId is optional
StrategiesFound(userId, strategyId) ==
    IF strategyId = Absent THEN ActiveStrategies(userId)
    ELSE {id \in strategyId : FindStrategy(strategies, userId, id)}

\* rebalancingExclusion.findFirst({ where: { strategyId, symbolProfileId } })
ExistingExclusions(strategyId, symbolProfileId) ==
    {e \in DOMAIN exclusions :
        /\ exclusions[e].strategyId = strategyId
        /\ exclusions[e].symbolProfileId = symbolProfileId}

\* toggleExclusion: the strategy is looked up first
ToggleExclusion(c, userId, dto) ==
    /\ calls[c] = Idle
    /\ \/ nextExclusionId
            + Cardinality({k \in Calls : calls[k].pc \in {"toggleExclusion.findFirst",
                                                          "toggleExclusion.create"}})
            <= MaxExclusions
       \/ \E e \in DOMAIN exclusions :
              exclusions[e].symbolProfileId = dto.symbolProfileId
    /\ IF StrategiesFound(userId, dto.strategyId) = {}
       THEN Complete(c, [op |-> "toggleExclusion", outcome |-> "NotFound"])
       ELSE \E id \in StrategiesFound(userId, dto.strategyId) :
                Begin(c, [pc |-> "toggleExclusion.findFirst", userId |-> userId,
                          strategyId |-> id, dto |-> dto])
    /\ UNCHANGED <<strategies, classTargets, subTargets, nextStrategyId,
                   nextClassTargetId, nextSubTargetId>>
    /\ UNCHANGED <<ledgerVars, performanceVars, exclusions, nextExclusionId, report>>

\* then the existing exclusion of the symbol, whose fields are kept for the update
ToggleExclusionFindFirst(c) ==
    /\ calls[c].pc = "toggleExclusion.findFirst"
    /\ LET found == ExistingExclusions(calls[c].strategyId, calls[c].dto.symbolProfileId)
       IN  IF found = {}
           THEN Continue(c, [calls[c] EXCEPT !.pc = "toggleExclusion.create"])
           ELSE \E e \in found :
                    Continue(c, [pc |-> "toggleExclusion.update",
                                 dto |-> calls[c].dto,
                                 id |-> e, existing |-> exclusions[e]])
    /\ UNCHANGED <<strategies, classTargets, subTargets, nextStrategyId,
                   nextClassTargetId, nextSubTargetId>>
    /\ UNCHANGED <<ledgerVars, performanceVars, exclusions, nextExclusionId, report>>

\* rebalancingExclusion.update({ where: { id: existing.id }, ... })
ToggleExclusionUpdate(c) ==
    /\ calls[c].pc = "toggleExclusion.update"
    /\ LET id == calls[c].id
           dto == calls[c].dto
           existing == calls[c].existing
       IN  IF id \notin DOMAIN exclusions
           THEN /\ UNCHANGED exclusions
                /\ Complete(c, [op |-> "toggleExclusion", outcome |-> "DbError"])
           ELSE /\ exclusions' = [exclusions EXCEPT
                       ![id].excludeFromCalculation =
                           FlagOr(dto.excludeFromCalculation,
                                  existing.excludeFromCalculation),
                       ![id].neverSell = FlagOr(dto.neverSell, existing.neverSell)]
                /\ Complete(c, [op |-> "toggleExclusion", outcome |-> "ok"])
    /\ UNCHANGED <<strategies, classTargets, subTargets, nextStrategyId,
                   nextClassTargetId, nextSubTargetId>>
    /\ UNCHANGED <<ledgerVars, performanceVars, nextExclusionId, report>>

\* rebalancingExclusion.create: the foreign key needs the strategy, and
\* (strategyId, symbolProfileId) is unique
ToggleExclusionCreate(c) ==
    /\ calls[c].pc = "toggleExclusion.create"
    /\ LET dto == calls[c].dto
       IN  IF \/ calls[c].strategyId \notin DOMAIN strategies
              \/ ExistingExclusions(calls[c].strategyId, dto.symbolProfileId) # {}
           THEN /\ UNCHANGED <<exclusions, nextExclusionId>>
                /\ Complete(c, [op |-> "toggleExclusion", outcome |-> "DbError"])
           ELSE /\ exclusions' = Insert(exclusions, nextExclusionId,
                       [strategyId |-> calls[c].strategyId,
                        userId |-> calls[c].userId,
                        symbolProfileId |-> dto.symbolProfileId,
                        excludeFromCalculation |->
                            FlagOr(dto.excludeFromCalculation, TRUE),
                        neverSell |-> FlagOr(dto.neverSell, FALSE)])
                /\ nextExclusionId' = nextExclusionId + 1
                /\ Complete(c, [op |-> "toggleExclusion", outcome |-> "ok"])
    /\ UNCHANGED <<strategies, classTargets, subTargets, nextStrategyId,
                   nextClassTargetId, nextSubTargetId>>
    /\ UNCHANGED <<ledgerVars, performanceVars, report>>

(***************************************************************************)
(* RebalancingService: allocation analysis                                 *)
(* A holding of portfolioService.getDetails is [symbol, assetClass,        *)
(* assetSubClass, quantity, marketPrice, valueInBaseCurrency]; "" stands   *)
(* for a missing asset class. The data source is the same for all symbols, *)
(* so the key `${dataSource}:${symbol}` is the symbol.                     *)
(***************************************************************************)
\* the ids of a set of rows in the order the database returns them
RECURSIVE InIdOrder(_)
InIdOrder(ids) ==
    IF ids = {} THEN <<>>
    ELSE LET first == CHOOSE x \in ids : \A y \in ids : x <= y
         IN  <<first>> \o InIdOrder(ids \ {first})

\* reduce((sum, h) => sum + (h.valueInBaseCurrency ?? 0), 0)
RECURSIVE SumValue(_)
SumValue(holdings) ==
    IF holdings = <<>> THEN 0
    ELSE Head(holdings).valueInBaseCurrency + SumValue(Tail(holdings))

\* exclusionMap.get(key) over findMany({ where: { strategyId, userId } })
ExclusionsOf(strategyId, userId, symbol) ==
    {e \in DOMAIN exclusions :
        /\ exclusions[e].strategyId = strategyId
        /\ exclusions[e].userId = userId
        /\ exclusions[e].symbolProfileId = symbol}

\* exclusionMap.get(getExclusionKey(h))?.excludeFromCalculation
IsExcluded(strategyId, userId, h) ==
    \E e \in ExclusionsOf(strategyId, userId, h.symbol) :
        exclusions[e].excludeFromCalculation

\* exclusionMap.get(exclusionKey)?.neverSell || false
IsNeverSell(strategyId, userId, h) ==
    \E e \in ExclusionsOf(strategyId, userId, h.symbol) : exclusions[e].neverSell

\* a plausible slip: nothing is filtered out
AllHoldings(strategyId, userId, holdings) == holdings

\* allHoldings.filter((h) => !exclusionMap.get(getExclusionKey(h))?.excludeFromCalculation)
IncludedHoldings(strategyId, userId, holdings) ==
    SelectSeq(holdings, LAMBDA h : ~IsExcluded(strategyId, userId, h))

ExcludedHoldings(strategyId, userId, holdings) ==
    SelectSeq(holdings, LAMBDA h : IsExcluded(strategyId, userId, h))

\* holding.assetClass || 'UNKNOWN'
ClassKey(h) == IF h.assetClass = "" THEN "UNKNOWN" ELSE h.assetClass

SubClassKey(h) == IF h.assetSubClass = "" THEN "UNKNOWN" ELSE h.assetSubClass

\* holdingsByAssetClass.get(assetClass) || [], holdingsBySubClass.get(assetSubClass) || []
HoldingsInClass(included, assetClass) ==
    SelectSeq(included, LAMBDA h : ClassKey(h) = assetClass)

HoldingsInSubClass(included, assetSubClass) ==
    SelectSeq(included, LAMBDA h : SubClassKey(h) = assetSubClass)

\* a plausible slip: the bands start above the threshold
getDriftStatusStrict(drift, threshold) ==
    IF Less(Num(threshold), MathAbs(drift)) THEN "CRITICAL"
    ELSE IF Less(Times(Num(threshold), Fraction(1, 2)), MathAbs(drift)) THEN "WARNING"
    ELSE "OK"

getDriftStatus(drift, threshold) ==
    IF AtLeast(MathAbs(drift), Num(threshold)) THEN "CRITICAL"
    ELSE IF AtLeast(MathAbs(drift), Times(Num(threshold), Fraction(1, 2))) THEN "WARNING"
    ELSE "OK"

getOverallStatus(maxDrift, threshold) ==
    IF AtLeast(maxDrift, Num(threshold)) THEN "CRITICAL"
    ELSE IF AtLeast(maxDrift, Times(Num(threshold), Fraction(1, 2))) THEN "WARNING"
    ELSE "OK"

\* x > 0 ? (x / total) * 100 : 0
PercentOf(value, total) ==
    IF total > 0 THEN Times(Fraction(value, total), Num(100)) ELSE Num(0)

mapHoldings(holdings, strategyId, userId) ==
    [i \in 1..Len(holdings) |->
        [symbol |-> holdings[i].symbol,
         shares |-> holdings[i].quantity,
         price |-> holdings[i].marketPrice,
         value |-> holdings[i].valueInBaseCurrency,
         isExcluded |-> IsExcluded(strategyId, userId, holdings[i]),
         neverSell |-> IsNeverSell(strategyId, userId, holdings[i])]]

\* one entry of subClassAllocations
SubClassAllocation(strategyId, userId, included, portfolioValue, target, actualValue, subTarget) ==
    LET holdingsInSubClass == HoldingsInSubClass(included, subTarget.assetSubClass)
        subActualValue == SumValue(holdingsInSubClass)
        subTargetPercentOfTotal ==
            Fraction(target.targetPercent * subTarget.targetPercent, 100)
        subTargetValue ==
            Times(Over(subTargetPercentOfTotal, Num(100)), Num(portfolioValue))
        subActualPercentOfTotal == PercentOf(subActualValue, portfolioValue)
        subDriftPercent == Minus(subActualPercentOfTotal, subTargetPercentOfTotal)
    IN  [assetSubClass |-> subTarget.assetSubClass,
         targetPercentOfParent |-> subTarget.targetPercent,
         targetPercentOfTotal |-> subTargetPercentOfTotal,
         targetValue |-> subTargetValue,
         actualPercentOfParent |-> PercentOf(subActualValue, actualValue),
         actualPercentOfTotal |-> subActualPercentOfTotal,
         actualValue |-> subActualValue,
         driftPercent |-> subDriftPercent,
         driftValue |-> Minus(Num(subActualValue), subTargetValue),
         driftStatus |-> getDriftStatus(subDriftPercent,
                                        strategies[strategyId].driftThreshold),
         holdings |-> mapHoldings(holdingsInSubClass, strategyId, userId)]

\* one entry of assetClassAllocations
AssetClassAllocation(strategyId, userId, included, portfolioValue, targetId) ==
    LET target == classTargets[targetId]
        holdingsInClass == HoldingsInClass(included, target.assetClass)
        actualValue == SumValue(holdingsInClass)
        actualPercent == PercentOf(actualValue, portfolioValue)
        targetValue == Times(Fraction(target.targetPercent, 100), Num(portfolioValue))
        driftPercent == Minus(actualPercent, Num(target.targetPercent))
        subIds == InIdOrder(SubTargetsOf(subTargets, {targetId}))
    IN  [assetClass |-> target.assetClass,
         targetPercent |-> target.targetPercent,
         targetValue |-> targetValue,
         actualPercent |-> actualPercent,
         actualValue |-> actualValue,
         driftPercent |-> driftPercent,
         driftValue |-> Minus(Num(actualValue), targetValue),
         driftStatus |-> getDriftStatus(driftPercent,
                                        strategies[strategyId].driftThreshold),
         subClassAllocations |->
             [k \in 1..Len(subIds) |->
                 SubClassAllocation(strategyId, userId, included, portfolioValue,
                                    target, actualValue, subTargets[subIds[k]])],
         holdings |-> mapHoldings(holdingsInClass, strategyId, userId)]

\* maxDrift = Math.max(maxDrift, Math.abs(driftPercent)) over the class rows, from 0
RECURSIVE MaxAbsDrift(_)
MaxAbsDrift(rows) ==
    IF rows = <<>> THEN Num(0)
    ELSE MathMax(MaxAbsDrift(Tail(rows)), MathAbs(Head(rows).driftPercent))

\* the AllocationAnalysis that getAllocationAnalysis returns for a strategy it found
AllocationAnalysis(strategyId, userId, holdings) ==
    LET included == IncludedHoldings(strategyId, userId, holdings)
        excluded == ExcludedHoldings(strategyId, userId, holdings)
        portfolioValue == SumValue(included)
        targetIds == InIdOrder(TargetsOf(classTargets, strategyId))
        assetClassAllocations ==
            [k \in 1..Len(targetIds) |->
                AssetClassAllocation(strategyId, userId, included, portfolioValue,
                                     targetIds[k])]
        maxDrift == MaxAbsDrift(assetClassAllocations)
    IN  [portfolioValue |-> portfolioValue,
         strategyId |-> strategyId,
         driftThreshold |-> strategies[strategyId].driftThreshold,
         overallStatus |-> getOverallStatus(maxDrift,
                                            strategies[strategyId].driftThreshold),
         maxDrift |-> maxDrift,
         assetClassAllocations |-> assetClassAllocations,
         excludedHoldings |->
             [k \in 1..Len(excluded) |->
                 [symbol |-> excluded[k].symbol,
                  value |-> excluded[k].valueInBaseCurrency,
                  excludeFromCalculation |-> TRUE,
                  neverSell |-> IsNeverSell(strategyId, userId, excluded[k])]]]

(***************************************************************************)
(* RebalancingService: rebalancing suggestions                             *)
(* The list under construction is [suggestions, priority], priority being  *)
(* the local counter of getRebalancingSuggestions.                         *)
(***************************************************************************)
\* suggestions.push({ ..., priority: priority++ })
Push(list, suggestion) ==
    [suggestions |-> Append(list.suggestions, suggestion @@ [priority |-> list.priority]),
     priority |-> list.priority + 1]

\* a plausible slip: holdings marked neverSell are sold as well
AllOfSubClass(holdings) == holdings

\* subClass.holdings.filter((h) => !h.neverSell)
SellableHoldings(holdings) == SelectSeq(holdings, LAMBDA h : ~h.neverSell)

\* sellableHoldings.reduce((sum, h) => sum + h.value, 0)
RECURSIVE TotalValue(_)
TotalValue(holdings) ==
    IF holdings = <<>> THEN 0 ELSE Head(holdings).value + TotalValue(Tail(holdings))

\* a plausible slip: the share count is rounded up
SharesToSellCeiling(amountToSell, holding, totalSellableValue) ==
    MathFloor(Over(Times(amountToSell, Fraction(holding.value, totalSellableValue)), Num(holding.price))) + 1

\* Math.floor(amountToSell * (holding.value / totalSellableValue) / holding.price)
SharesToSell(amountToSell, holding, totalSellableValue) ==
    MathFloor(Over(Times(amountToSell, Fraction(holding.value, totalSellableValue)), Num(holding.price)))

\* the loop over sellableHoldings; a total of 0 makes the proportion NaN and
\* the test sharesToSell > 0 false
RECURSIVE SellHoldings(_, _, _, _, _, _)
SellHoldings(list, assetClass, subClass, sellable, amountToSell, totalSellableValue) ==
    IF sellable = <<>> THEN list
    ELSE LET holding == Head(sellable)
             sharesToSell ==
                 IF totalSellableValue = 0 THEN 0
                 ELSE SharesToSell(amountToSell, holding, totalSellableValue)
             pushed ==
                 IF sharesToSell > 0
                 THEN Push(list, [action |-> "SELL",
                                  assetClass |-> assetClass.assetClass,
                                  assetSubClass |-> subClass.assetSubClass,
                                  symbol |-> holding.symbol,
                                  currentShares |-> holding.shares,
                                  currentValue |-> holding.value,
                                  suggestedAmount |-> Num(sharesToSell * holding.price),
                                  suggestedShares |-> sharesToSell,
                                  sharePrice |-> holding.price])
                 ELSE list
         IN  SellHoldings(pushed, assetClass, subClass, Tail(sellable), amountToSell, totalSellableValue)

\* the loop over assetClass.subClassAllocations of an overweight class
RECURSIVE SellSubClasses(_, _, _)
SellSubClasses(list, assetClass, subClasses) ==
    IF subClasses = <<>> THEN list
    ELSE LET subClass == Head(subClasses)
             sellable == SellableHoldings(subClass.holdings)
             sold ==
                 IF Less(Num(0), subClass.driftPercent)
                 THEN SellHoldings(list, assetClass, subClass, sellable,
                                   MathAbs(subClass.driftValue), TotalValue(sellable))
                 ELSE list
         IN  SellSubClasses(sold, assetClass, Tail(subClasses))

\* the first loop over analysis.assetClassAllocations
RECURSIVE SellClasses(_, _)
SellClasses(list, assetClasses) ==
    IF assetClasses = <<>> THEN list
    ELSE LET assetClass == Head(assetClasses)
             sold ==
                 IF Less(Num(0), assetClass.driftPercent)
                 THEN SellSubClasses(list, assetClass, assetClass.subClassAllocations)
                 ELSE list
         IN  SellClasses(sold, Tail(assetClasses))

\* the loop over assetClass.subClassAllocations of an underweight class
RECURSIVE BuySubClasses(_, _, _)
BuySubClasses(list, assetClass, subClasses) ==
    IF subClasses = <<>> THEN list
    ELSE LET subClass == Head(subClasses)
             bought ==
                 IF Less(subClass.driftPercent, Num(0))
                 THEN Push(list, [action |-> "BUY",
                                  assetClass |-> assetClass.assetClass,
                                  assetSubClass |-> subClass.assetSubClass,
                                  suggestedAmount |-> MathAbs(subClass.driftValue)])
                 ELSE list
         IN  BuySubClasses(bought, assetClass, Tail(subClasses))

\* the second loop over analysis.assetClassAllocations
RECURSIVE BuyClasses(_, _)
BuyClasses(list, assetClasses) ==
    IF assetClasses = <<>> THEN list
    ELSE LET assetClass == Head(assetClasses)
             bought ==
                 IF Less(assetClass.driftPercent, Num(0))
                 THEN BuySubClasses(list, assetClass, assetClass.subClassAllocations)
                 ELSE list
         IN  BuyClasses(bought, Tail(assetClasses))

\* suggestions.sort((a, b) => a.priority - b.priority), a stable sort
RECURSIVE InsertByPriority(_, _)
InsertByPriority(sorted, suggestion) ==
    IF sorted = <<>> THEN <<suggestion>>
    ELSE IF suggestion.priority < Head(sorted).priority
         THEN <<suggestion>> \o sorted
         ELSE <<Head(sorted)>> \o InsertByPriority(Tail(sorted), suggestion)

RECURSIVE SortByPriority(_)
SortByPriority(suggestions) ==
    IF suggestions = <<>> THEN <<>>
    ELSE InsertByPriority(SortByPriority(SubSeq(suggestions, 1, Len(suggestions) - 1)),
                          suggestions[Len(suggestions)])

\* a plausible slip: the buys are collected before the sells
BuysThenSells(analysis) ==
    SortByPriority(
        SellClasses(BuyClasses([suggestions |-> <<>>, priority |-> 1],
                               analysis.assetClassAllocations),
                    analysis.assetClassAllocations).suggestions)

\* the list getRebalancingSuggestions returns for an analysis
RebalancingSuggestions(analysis) ==
    SortByPriority(
        BuyClasses(SellClasses([suggestions |-> <<>>, priority |-> 1],
                               analysis.assetClassAllocations),
                   analysis.assetClassAllocations).suggestions)

(***************************************************************************)
(* RebalancingService: the analysis calls. With one call at a time nothing *)
(* runs between the reads of a call, so each call is one step.             *)
(***************************************************************************)
Holding(symbol, assetClass, assetSubClass, quantity, marketPrice) ==
    [symbol |-> symbol, assetClass |-> assetClass, assetSubClass |-> assetSubClass,
     quantity |-> quantity, marketPrice |-> marketPrice,
     valueInBaseCurrency |-> quantity * marketPrice]

\* the holdings portfolioService.getDetails returns: a portfolio of 10,000 with
\* holdings of 4,000, 3,000, 2,000 and 1,000, one with a holding that has no
\* asset class, and an empty one
Portfolios ==
    {<<Holding("AAPL", "EQUITY", "STOCK", 40, 100),
       Holding("MSFT", "EQUITY", "STOCK", 20, 150),
       Holding("BND", "DEBT", "BOND", 25, 80),
       Holding("TLT", "FIXED_INCOME", "BOND", 10, 100)>>,
     <<Holding("AAPL", "EQUITY", "STOCK", 62, 100),
       Holding("BND", "DEBT", "BOND", 40, 80),
       Holding("XYZ", "", "", 6, 100)>>,
     <<>>}

AnalysisUsers == {"u1"}

MaxAnalysisStrategies == 1

\* the requests of the scenario
StrategyDtos ==
    {[isActive |-> "true", driftThreshold |-> Given(10)],
     [isActive |-> "absent", driftThreshold |-> Absent]}

ClassTargetDtos ==
    {[assetClass |-> "EQUITY", targetPercent |-> 60],
     [assetClass |-> "DEBT", targetPercent |-> 40]}

SubClassTargetDtos ==
    {[assetSubClass |-> "STOCK", targetPercent |-> 40],
     [assetSubClass |-> "BOND", targetPercent |-> 100]}

ToggleExclusionDtos ==
    {[symbolProfileId |-> "BND", strategyId |-> Absent,
      excludeFromCalculation |-> "absent", neverSell |-> "absent"],
     [symbolProfileId |-> "MSFT", strategyId |-> Given(1),
      excludeFromCalculation |-> "false", neverSell |-> "true"]}

OptionalStrategyIds == {Absent} \cup {Given(id) : id \in 1..MaxAnalysisStrategies}

\* throw new NotFoundException(...) of getStrategy and of getAllocationAnalysis
NoStrategy(op, userId, strategyId) ==
    [op |-> op, outcome |-> "NotFound", readPortfolio |-> FALSE,
     requested |-> strategyId, active |-> ActiveOf(userId),
     message |-> IF strategyId = Absent THEN "No active rebalancing strategy found"
                 ELSE "Strategy not found"]

getAllocationAnalysis(userId, strategyId, holdings) ==
    /\ IF StrategiesFound(userId, strategyId) = {}
       THEN report' = NoStrategy("getAllocationAnalysis", userId, strategyId)
       ELSE \E id \in StrategiesFound(userId, strategyId) :
                report' = [op |-> "getAllocationAnalysis", outcome |-> "ok",
                           userId |-> userId, holdings |-> holdings,
                           exclusions |-> exclusions,
                           requested |-> strategyId, active |-> ActiveOf(userId),
                           readPortfolio |-> TRUE,
                           analysis |-> AllocationAnalysis(id, userId, holdings)]
    /\ UNCHANGED <<ledgerVars, performanceVars, dbVars, exclusions, nextExclusionId>>

\* analysis.assetClassAllocations.filter(...).map(...)
CategoriesOverThreshold(analysis, driftThreshold) ==
    LET over == SelectSeq(analysis.assetClassAllocations,
                          LAMBDA a : Less(Num(driftThreshold), MathAbs(a.driftPercent)))
    IN  [k \in 1..Len(over) |->
            [name |-> over[k].assetClass, drift |-> over[k].driftPercent,
             type |-> IF Less(Num(0), over[k].driftPercent) THEN "OVER" ELSE "UNDER"]]

getDriftSummary(userId, holdings) ==
    /\ IF ActiveStrategies(userId) = {}
       THEN report' = [op |-> "getDriftSummary", outcome |-> "ok",
                       readPortfolio |-> FALSE,
                       requested |-> Absent, active |-> ActiveOf(userId),
                       summary |-> [hasActiveStrategy |-> FALSE,
                                    overallStatus |-> "NO_STRATEGY",
                                    maxDrift |-> Num(0),
                                    driftThreshold |-> 5,
                                    categoriesOverThreshold |-> <<>>]]
       ELSE \E id \in ActiveStrategies(userId) :
                LET analysis == AllocationAnalysis(id, userId, holdings)
                IN  report' = [op |-> "getDriftSummary", outcome |-> "ok",
                               userId |-> userId, holdings |-> holdings,
                               exclusions |-> exclusions,
                               requested |-> Absent, active |-> ActiveOf(userId),
                               readPortfolio |-> TRUE,
                               analysis |-> analysis,
                               summary |->
                                   [hasActiveStrategy |-> TRUE,
                                    overallStatus |-> analysis.overallStatus,
                                    maxDrift |-> analysis.maxDrift,
                                    driftThreshold |-> strategies[id].driftThreshold,
                                    categoriesOverThreshold |->
                                        CategoriesOverThreshold(
                                            analysis, strategies[id].driftThreshold)]]
    /\ UNCHANGED <<ledgerVars, performanceVars, dbVars, exclusions, nextExclusionId>>

getRebalancingSuggestions(userId, strategyId, holdings) ==
    /\ IF StrategiesFound(userId, strategyId) = {}
       THEN report' = NoStrategy("getRebalancingSuggestions", userId, strategyId)
       ELSE \E id \in StrategiesFound(userId, strategyId) :
                LET analysis == AllocationAnalysis(id, userId, holdings)
                IN  report' = [op |-> "getRebalancingSuggestions", outcome |-> "ok",
                               userId |-> userId, holdings |-> holdings,
                               exclusions |-> exclusions,
                               requested |-> strategyId, active |-> ActiveOf(userId),
                               readPortfolio |-> TRUE,
                               analysis |-> analysis,
                               suggestions |-> RebalancingSuggestions(analysis)]
    /\ UNCHANGED <<ledgerVars, performanceVars, dbVars, exclusions, nextExclusionId>>

\* TargetAllocationDrift.evaluate: driftData is what the rule was constructed
\* with, null (Absent) or a drift summary; the evaluation text is kept as the
\* branch that wrote it
evaluate(driftData) ==
    IF driftData = Absent THEN [evaluation |-> "none configured", value |-> TRUE]
    ELSE LET data == CHOOSE x \in driftData : TRUE
         IN  IF ~data.hasActiveStrategy
             THEN [evaluation |-> "none configured", value |-> TRUE]
             ELSE IF Len(data.categoriesOverThreshold) > 0
                  THEN [evaluation |-> "exceed", value |-> FALSE]
                  ELSE IF Less(Times(Num(data.driftThreshold), Fraction(1, 2)),
                               data.maxDrift)
                       THEN [evaluation |-> "approaching", value |-> TRUE]
                       ELSE [evaluation |-> "within", value |-> TRUE]

\* the rule is constructed with the drift summary of the user, or with null,
\* and evaluated
EvaluateDrift(c) ==
    /\ calls[c] = Idle
    /\ report.op = "getDriftSummary"
    /\ \E driftData \in {Absent, Given(report.summary)} :
           report' = [k \in DOMAIN report \cup {"driftData", "rule"} |->
                         CASE k = "op" -> "evaluate"
                           [] k = "driftData" -> driftData
                           [] k = "rule" -> evaluate(driftData)
                           [] OTHER -> report[k]]
    /\ UNCHANGED <<ledgerVars, performanceVars, dbVars, exclusions, nextExclusionId>>

GetAllocationAnalysis(c) ==
    /\ calls[c] = Idle
    /\ \E userId \in AnalysisUsers, strategyId \in OptionalStrategyIds,
          holdings \in Portfolios :
           getAllocationAnalysis(userId, strategyId, holdings)

GetDriftSummary(c) ==
    /\ calls[c] = Idle
    /\ \E userId \in AnalysisUsers, holdings \in Portfolios :
           getDriftSummary(userId, holdings)

GetRebalancingSuggestions(c) ==
    /\ calls[c] = Idle
    /\ \E userId \in AnalysisUsers, strategyId \in OptionalStrategyIds,
          holdings \in Portfolios :
           getRebalancingSuggestions(userId, strategyId, holdings)

\* the scenario's strategy, targets and exclusions are set up by the service's
\* own calls, between which the analysis calls are made
AnalysisNext ==
    \E c \in SequentialCalls :
        \/ /\ nextStrategyId <= MaxAnalysisStrategies
           /\ \E userId \in AnalysisUsers, dto \in StrategyDtos :
                  CreateStrategy(c, userId, dto.isActive, dto.driftThreshold)
        \/ CreateStrategyCreate(c)
        \/ \E userId \in AnalysisUsers, strategyId \in 1..MaxAnalysisStrategies,
              dto \in ClassTargetDtos :
               CreateAssetClassTarget(c, userId, strategyId, dto.assetClass,
                                      dto.targetPercent)
        \/ CreateAssetClassTargetCreate(c)
        \/ \E userId \in AnalysisUsers, assetClassTargetId \in ClassTargetIds,
              dto \in SubClassTargetDtos :
               CreateSubClassTarget(c, userId, assetClassTargetId, dto.assetSubClass,
                                    dto.targetPercent)
        \/ CreateSubClassTargetCreate(c)
        \/ \E userId \in AnalysisUsers, dto \in ToggleExclusionDtos :
               ToggleExclusion(c, userId, dto)
        \/ ToggleExclusionFindFirst(c)
        \/ ToggleExclusionUpdate(c)
        \/ ToggleExclusionCreate(c)
        \/ GetAllocationAnalysis(c)
        \/ GetDriftSummary(c)
        \/ GetRebalancingSuggestions(c)
        \/ EvaluateDrift(c)

SpecAnalysis == Init /\ [][AnalysisNext]_vars

(***************************************************************************)
(* Properties of the analysis                                              *)
(***************************************************************************)
\* the latest call returned an analysis (on its own or with what was derived from it)
HasAnalysis ==
    /\ report.op \in {"getAllocationAnalysis", "getDriftSummary",
                      "getRebalancingSuggestions"}
    /\ report.outcome = "ok"
    /\ report.readPortfolio

\* the elements of a sequence
Range(seq) == {seq[i] : i \in DOMAIN seq}

\* the bands of the drift status: below half the threshold, below the threshold, from it on
Band(absDrift, threshold) ==
    IF Less(absDrift, Fraction(threshold, 2)) THEN "OK"
    ELSE IF Less(absDrift, Num(threshold)) THEN "WARNING"
    ELSE "CRITICAL"

Severity(status) == CASE status = "OK" -> 0 [] status = "WARNING" -> 1 [] status = "CRITICAL" -> 2

\* thresholds and drifts at, just below and just above the two band limits
BandThresholds == {1, 5, 10, 50}

DriftSamples(threshold) ==
    {Num(0)} \cup
    UNION {{Fraction(sign * (2 * limit + delta), 4) : sign \in {-1, 1}, delta \in {-1, 0, 1}} :
              limit \in {threshold, 2 * threshold}}

\* the largest |driftPercent| of the class rows, 0 when there are none
LargestAbsDrift(rows) ==
    IF rows = <<>> THEN Num(0)
    ELSE CHOOSE m \in {MathAbs(r.driftPercent) : r \in Range(rows)} :
             \A r \in Range(rows) : AtLeast(m, MathAbs(r.driftPercent))

\* C12: for every drift d and threshold t > 0 the status is OK when |d| < t/2,
\* WARNING when t/2 <= |d| < t and CRITICAL when |d| >= t; every row of an
\* analysis carries that status of its driftPercent, and overallStatus is the
\* status of the largest |driftPercent| of the class rows, which is the most
\* severe driftStatus among the class rows (OK when there are no class rows),
\* whatever the sub-class rows are.
C12_DriftBands ==
    /\ \A threshold \in BandThresholds : \A drift \in DriftSamples(threshold) :
           getDriftStatus(drift, threshold) = Band(MathAbs(drift), threshold)
    /\ HasAnalysis =>
           LET rows == report.analysis.assetClassAllocations
               threshold == report.analysis.driftThreshold
           IN  /\ \A row \in Range(rows) :
                      /\ row.driftStatus = Band(MathAbs(row.driftPercent), threshold)
                      /\ \A sub \in Range(row.subClassAllocations) :
                             sub.driftStatus = Band(MathAbs(sub.driftPercent), threshold)
               /\ report.analysis.overallStatus = Band(LargestAbsDrift(rows), threshold)
               /\ rows = <<>> => report.analysis.overallStatus = "OK"
               /\ rows # <<>> =>
                      /\ \E row \in Range(rows) :
                             row.driftStatus = report.analysis.overallStatus
                      /\ \A row \in Range(rows) :
                             Severity(row.driftStatus)
                                 <= Severity(report.analysis.overallStatus)

\* an analysis whose class rows differ in status, with a sub-class row more
\* severe than the overall status
C12_Witness ==
    /\ HasAnalysis
    /\ \E r1, r2 \in Range(report.analysis.assetClassAllocations) :
           r1.driftStatus # r2.driftStatus
    /\ \E row \in Range(report.analysis.assetClassAllocations) :
           \E sub \in Range(row.subClassAllocations) :
               Severity(sub.driftStatus) > Severity(report.analysis.overallStatus)

\* an analysis of a strategy without class targets
C12_WitnessNoTargets ==
    /\ HasAnalysis
    /\ report.analysis.assetClassAllocations = <<>>
    /\ report.holdings # <<>>

\* the rows of the exclusion table the call found for the analysed strategy and a symbol
ReportedExclusions(symbol) ==
    {report.exclusions[e] : e \in
        {x \in DOMAIN report.exclusions :
            /\ report.exclusions[x].strategyId = report.analysis.strategyId
            /\ report.exclusions[x].symbolProfileId = symbol}}

ExcludedFromCalculation(h) == \E e \in ReportedExclusions(h.symbol) : e.excludeFromCalculation

\* the symbols listed in a class row or in one of its sub-class rows
SymbolsOfRow(row) ==
    {x.symbol : x \in Range(row.holdings)}
        \cup UNION {{x.symbol : x \in Range(sub.holdings)} :
                       sub \in Range(row.subClassAllocations)}

\* C13: a holding whose exclusion has excludeFromCalculation = true counts in
\* neither portfolioValue nor the actualValue of any class or sub-class row and
\* is listed only in excludedHoldings; every other holding (no exclusion, or
\* one with excludeFromCalculation = false) is counted in portfolioValue, which
\* is the sum of the values of the included holdings (10,000 with a holding of
\* 2,000 excluded gives 8,000).
C13_ExcludedHoldings ==
    HasAnalysis =>
        LET analysis == report.analysis
            rows == Range(analysis.assetClassAllocations)
            counted == SelectSeq(report.holdings, LAMBDA h : ~ExcludedFromCalculation(h))
            left == SelectSeq(report.holdings, LAMBDA h : ExcludedFromCalculation(h))
        IN  /\ analysis.portfolioValue = SumValue(counted)
            /\ analysis.portfolioValue + SumValue(left) = SumValue(report.holdings)
            /\ \A h \in Range(left) :
                   /\ \A row \in rows : h.symbol \notin SymbolsOfRow(row)
                   /\ \E x \in Range(analysis.excludedHoldings) :
                          x.symbol = h.symbol /\ x.value = h.valueInBaseCurrency
            /\ \A h \in Range(counted) :
                   \A x \in Range(analysis.excludedHoldings) : x.symbol # h.symbol
            /\ \A row \in rows :
                   /\ row.actualValue =
                          SumValue(SelectSeq(counted, LAMBDA h : h.assetClass = row.assetClass))
                   /\ \A sub \in Range(row.subClassAllocations) :
                          sub.actualValue =
                              SumValue(SelectSeq(counted,
                                  LAMBDA h : h.assetSubClass = sub.assetSubClass))
            /\ (SumValue(report.holdings) = 10000 /\ SumValue(left) = 2000)
                   => analysis.portfolioValue = 8000

\* the 10,000 portfolio analysed with its 2,000 holding excluded and with another
\* holding whose exclusion has excludeFromCalculation = false
C13_Witness ==
    /\ HasAnalysis
    /\ SumValue(report.holdings) = 10000
    /\ report.analysis.portfolioValue = 8000
    /\ Len(report.analysis.excludedHoldings) = 1
    /\ report.analysis.assetClassAllocations # <<>>
    /\ \E h \in Range(report.holdings) :
           /\ ReportedExclusions(h.symbol) # {}
           /\ ~ExcludedFromCalculation(h)

\* the latest call returned rebalancing suggestions
HasSuggestions ==
    /\ report.op = "getRebalancingSuggestions"
    /\ report.outcome = "ok"

Sells == SelectSeq(report.suggestions, LAMBDA s : s.action = "SELL")

Buys == SelectSeq(report.suggestions, LAMBDA s : s.action = "BUY")

\* position of the class row, of the sub-class row and of the holding a suggestion names
ClassIndex(s) ==
    CHOOSE i \in DOMAIN report.analysis.assetClassAllocations :
        report.analysis.assetClassAllocations[i].assetClass = s.assetClass

ClassRow(s) == report.analysis.assetClassAllocations[ClassIndex(s)]

SubIndex(s) ==
    CHOOSE k \in DOMAIN ClassRow(s).subClassAllocations :
        ClassRow(s).subClassAllocations[k].assetSubClass = s.assetSubClass

SubRow(s) == ClassRow(s).subClassAllocations[SubIndex(s)]

HoldingIndex(s) ==
    CHOOSE k \in DOMAIN SubRow(s).holdings : SubRow(s).holdings[k].symbol = s.symbol

NeverSell(symbol) == \E e \in ReportedExclusions(symbol) : e.neverSell

\* the value of the holdings of a sub-class row that may be sold
SellableValue(sub) ==
    TotalValue(SelectSeq(sub.holdings, LAMBDA h : ~NeverSell(h.symbol)))

\* C14: no SELL suggestion names a holding whose exclusion has neverSell = true,
\* and the amount to sell of a sub-class is distributed over the value of its
\* other holdings only.
C14_NeverSell ==
    HasSuggestions =>
        \A s \in Range(Sells) :
            /\ ~NeverSell(s.symbol)
            /\ s.suggestedShares =
                   MathFloor(Over(Times(MathAbs(SubRow(s).driftValue),
                                        Fraction(s.currentValue, SellableValue(SubRow(s)))),
                                  Num(s.sharePrice)))

\* an overweight sub-class with a never-sell holding next to one that is sold
C14_Witness ==
    /\ HasSuggestions
    /\ \E s \in Range(Sells) :
           /\ \E h \in Range(SubRow(s).holdings) : NeverSell(h.symbol) /\ h.value > 0
           /\ SellableValue(SubRow(s)) < SubRow(s).actualValue

RECURSIVE SumAmount(_)
SumAmount(suggestions) ==
    IF suggestions = <<>> THEN Num(0)
    ELSE Plus(Head(suggestions).suggestedAmount, SumAmount(Tail(suggestions)))

\* the SELL suggestions emitted for a sub-class row of a class row
SellsFor(row, sub) ==
    SelectSeq(report.suggestions,
              LAMBDA s : /\ s.action = "SELL"
                         /\ s.assetClass = row.assetClass
                         /\ s.assetSubClass = sub.assetSubClass)

\* C15: for every sub-class row the suggestedAmount of its SELL suggestions sum
\* to at most |driftValue| of the row, the share counts being rounded down.
C15_SellWithinDrift ==
    HasSuggestions =>
        \A row \in Range(report.analysis.assetClassAllocations) :
            \A sub \in Range(row.subClassAllocations) :
                /\ AtLeast(MathAbs(sub.driftValue), SumAmount(SellsFor(row, sub)))
                /\ \A s \in Range(SellsFor(row, sub)) :
                       s.suggestedAmount = Num(s.suggestedShares * s.sharePrice)

\* two holdings of a sub-class are sold, and rounding leaves part of the drift
C15_Witness ==
    /\ HasSuggestions
    /\ \E row \in Range(report.analysis.assetClassAllocations) :
           \E sub \in Range(row.subClassAllocations) :
               /\ Len(SellsFor(row, sub)) = 2
               /\ Less(SumAmount(SellsFor(row, sub)), MathAbs(sub.driftValue))

\* class order, then sub-class order, then holding order
InLoopOrder(s1, s2) ==
    \/ ClassIndex(s1) < ClassIndex(s2)
    \/ /\ ClassIndex(s1) = ClassIndex(s2)
       /\ \/ SubIndex(s1) < SubIndex(s2)
          \/ /\ SubIndex(s1) = SubIndex(s2)
             /\ s1.action = "SELL"
             /\ HoldingIndex(s1) < HoldingIndex(s2)

RECURSIVE SumActualPercent(_)
SumActualPercent(rows) ==
    IF rows = <<>> THEN Num(0)
    ELSE Plus(Head(rows).actualPercent, SumActualPercent(Tail(rows)))

\* SUM over the excluded holdings of their value as a percentage of the gross value
RECURSIVE SumPercentOfGross(_, _)
SumPercentOfGross(excluded, gross) ==
    IF excluded = <<>> THEN Num(0)
    ELSE Plus(PercentOf(Head(excluded).value, gross),
              SumPercentOfGross(Tail(excluded), gross))

\* C17: in every analysis the actualPercent of the class rows plus the excluded
\* holdings' percentages of the gross portfolio value (included plus excluded)
\* add up to 100.
C17_AllocationClosure ==
    HasAnalysis =>
        Plus(SumActualPercent(report.analysis.assetClassAllocations),
             SumPercentOfGross(report.analysis.excludedHoldings,
                               SumValue(report.holdings)))
            = Num(100)

\* the default summary of getDriftSummary
NoStrategySummary ==
    [hasActiveStrategy |-> FALSE, overallStatus |-> "NO_STRATEGY", maxDrift |-> Num(0),
     driftThreshold |-> 5, categoriesOverThreshold |-> <<>>]

\* C18: for a user without an active strategy getDriftSummary returns the
\* default summary without an error and without reading the portfolio, and
\* getAllocationAnalysis and getRebalancingSuggestions called without a strategy
\* id fail with the no-active-strategy error and return no analysis or suggestions.
C18_NoActiveStrategy ==
    (report.op # "none" /\ report.active = {} /\ report.requested = Absent) =>
        /\ ~report.readPortfolio
        /\ report.op = "getDriftSummary" =>
               /\ report.outcome = "ok"
               /\ report.summary = NoStrategySummary
        /\ report.op \in {"getAllocationAnalysis", "getRebalancingSuggestions"} =>
               /\ report.outcome = "NotFound"
               /\ report.message = "No active rebalancing strategy found"
               /\ DOMAIN report \cap {"analysis", "suggestions", "summary"} = {}

\* the default summary for a user who has a strategy with targets, none active
C18_Witness ==
    /\ report.op = "getDriftSummary"
    /\ report.active = {}
    /\ report.summary = NoStrategySummary
    /\ \E id \in DOMAIN strategies :
           strategies[id].userId = "u1" /\ TargetsOf(classTargets, id) # {}

\* the error of an analysis without a strategy id for such a user
C18_WitnessError ==
    /\ report.op = "getRebalancingSuggestions"
    /\ report.outcome = "NotFound"
    /\ report.requested = Absent
    /\ strategies # <<>>


(***************************************************************************)
(* PPTtwrorCalculator.  A PPValuationPoint is [date, marketValue,          *)
(* externalFlow]: the date a day number, the two Big values integers.      *)
(* Big's plus, minus and times are exact; the quotient of div is kept as   *)
(* an exact fraction (Big rounds it to 20 decimal places), and toNumber    *)
(* keeps the fraction (the nearest double in the code).                    *)
(***************************************************************************)
MaxPoints == 3

ValuationDates == 1 .. 3

MarketValues == {0, 1000, 1500}

ExternalFlows == {-500, 0, 500}

ValuationPoints ==
    [date : ValuationDates, marketValue : MarketValues, externalFlow : ExternalFlows]

\* the series of the calculator's test 'should neutralize effect of deposits':
\* 2023-01-01, 2023-07-01 and 2024-01-01 as days since 2023-01-01
DepositExample ==
    << [date |-> 0, marketValue |-> 1000, externalFlow |-> 0],
       [date |-> 181, marketValue |-> 1550, externalFlow |-> 500],
       [date |-> 365, marketValue |-> 1650, externalFlow |-> 0] >>

ExamplePoints == {DepositExample[i] : i \in 1 .. 3}

\* a valuation of a portfolio whose liabilities exceed its assets
NegativeValuation == [date |-> 2, marketValue |-> -500, externalFlow |-> 0]

\* the place of point in a list sorted by date: behind every entry that is
\* not later (Array.prototype.sort is stable)
InsertValuation(sorted, point) ==
    LET before == SelectSeq(sorted, LAMBDA p : p.date <= point.date)
        after == SelectSeq(sorted, LAMBDA p : p.date > point.date)
    IN  before \o <<point>> \o after

RECURSIVE SortValuations(_)
SortValuations(valuations) ==
    IF valuations = <<>>
    THEN <<>>
    ELSE InsertValuation(SortValuations(SubSeq(valuations, 1, Len(valuations) - 1)),
                      valuations[Len(valuations)])

InboundFlow(curr) == IF curr.externalFlow > 0 THEN curr.externalFlow ELSE 0

OutboundFlowSigned(curr) == IF curr.externalFlow < 0 THEN curr.externalFlow ELSE 0

OutboundFlow(curr) == IF curr.externalFlow < 0 THEN Abs(curr.externalFlow) ELSE 0

DenominatorWithoutInflow(prev, curr) == prev.marketValue

Denominator(prev, curr) == prev.marketValue + InboundFlow(curr)

\* (MVE + outbound) / (MVB + inbound) - 1, for a denominator above 0
PeriodReturn(prev, curr) ==
    Minus(Over(Num(curr.marketValue + OutboundFlow(curr)), Num(Denominator(prev, curr))),
          Num(1))

DailyReturn(point, cumulativeReturn) ==
    [date |-> point.date, cumulativeReturn |-> Minus(cumulativeReturn, Num(1))]

\* the loop over sorted[i - 1], sorted[i] from position i on (positions from 1):
\* the cumulative factor and the daily returns it ends with
RECURSIVE LinkReturns(_, _, _, _)
LinkReturns(sorted, i, cumulativeReturn, dailyReturns) ==
    IF i > Len(sorted)
    THEN [cumulativeReturn |-> cumulativeReturn, dailyReturns |-> dailyReturns]
    ELSE LET prev == sorted[i - 1]
             curr == sorted[i]
             linked == IF Denominator(prev, curr) <= 0
                       THEN cumulativeReturn
                       ELSE Times(cumulativeReturn,
                                  Plus(Num(1), PeriodReturn(prev, curr)))
         IN  LinkReturns(sorted, i + 1, linked,
                         Append(dailyReturns, DailyReturn(curr, linked)))

\* Math.pow(base, exponent) - 1 is not a fraction: it is kept as the two arguments
annualize(cumulativeReturn, days) ==
    IF days <= 0
    THEN Num(0)
    ELSE IF days = 365
         THEN cumulativeReturn
         ELSE LET base == Plus(Num(1), cumulativeReturn)
              IN  IF base.n <= 0
                  THEN Num(-1)
                  ELSE [base |-> base, exponent |-> Fraction(365, days)]

calculate(valuations, includeDailyReturns) ==
    IF Len(valuations) < 2
    THEN [ttwror |-> Num(0), ttwrorAnnualized |-> Num(0), holdingPeriodDays |-> 0,
          dailyReturns |-> IF includeDailyReturns THEN Given(<<>>) ELSE Absent]
    ELSE LET sorted == SortValuations(valuations)
             loop == LinkReturns(sorted, 2, Num(1),
                                 <<[date |-> sorted[1].date, cumulativeReturn |-> Num(0)]>>)
             holdingPeriodDays == sorted[Len(sorted)].date - sorted[1].date
             ttwror == Minus(loop.cumulativeReturn, Num(1))
         IN  [ttwror |-> ttwror,
              ttwrorAnnualized |-> annualize(ttwror, holdingPeriodDays),
              holdingPeriodDays |-> holdingPeriodDays,
              dailyReturns |-> IF includeDailyReturns
                               THEN Given(loop.dailyReturns)
                               ELSE Absent]

\* the argument a caller has put together so far, one PPValuationPoint at a time
PendingValuations ==
    IF performance.op = "valuations" THEN performance.valuations ELSE <<>>

RecordValuation(point) ==
    /\ Len(PendingValuations) < MaxPoints
    /\ performance' = [op |-> "valuations",
                       valuations |-> Append(PendingValuations, point)]
    /\ UNCHANGED <<ledgerVars, dbVars, analysisVars>>

Calculate(includeDailyReturns) ==
    /\ performance.op # "calculate"
    /\ performance' = [op |-> "calculate",
                       valuations |-> PendingValuations,
                       includeDailyReturns |-> includeDailyReturns,
                       result |-> calculate(PendingValuations, includeDailyReturns)]
    /\ UNCHANGED <<ledgerVars, dbVars, analysisVars>>

\* the arrays a caller of calculateFromArrays derives from a valuation series,
\* in the order of the series
DatesOf(valuations) == [i \in 1 .. Len(valuations) |-> valuations[i].date]

TotalsOf(valuations) == [i \in 1 .. Len(valuations) |-> valuations[i].marketValue]

InboundTransferalsOf(valuations) ==
    [i \in 1 .. Len(valuations) |-> InboundFlow(valuations[i])]

OutboundTransferalsOf(valuations) ==
    [i \in 1 .. Len(valuations) |-> OutboundFlow(valuations[i])]

\* delta[i]: 0 when valuation + inboundTransferals[i] is 0, else the quotient - 1
Delta(valuation, thisValuation, inbound, outbound) ==
    IF valuation + inbound = 0
    THEN Num(0)
    ELSE Minus(Over(Num(thisValuation + outbound), Num(valuation + inbound)), Num(1))

\* the loop of calculateFromArrays from position i on (positions from 1), with
\* accumulated[i - 1] and the daily returns so far; the doubles of delta and
\* accumulated are taken as the values they are rounded from
RECURSIVE Accumulate(_, _, _, _, _, _, _)
Accumulate(dates, totals, inboundTransferals, outboundTransferals, i, accumulated, dailyReturns) ==
    IF i > Len(dates)
    THEN [accumulated |-> accumulated, dailyReturns |-> dailyReturns]
    ELSE LET delta == Delta(totals[i - 1], totals[i], inboundTransferals[i],
                            outboundTransferals[i])
             next == Minus(Times(Plus(accumulated, Num(1)), Plus(delta, Num(1))),
                           Num(1))
         IN  Accumulate(dates, totals, inboundTransferals, outboundTransferals, i + 1,
                        next,
                        Append(dailyReturns,
                               [date |-> dates[i], cumulativeReturn |-> next]))

calculateFromArrays(dates, totals, inboundTransferals, outboundTransferals, includeDailyReturns) ==
    IF Len(dates) < 2
    THEN [ttwror |-> Num(0), ttwrorAnnualized |-> Num(0), holdingPeriodDays |-> 0,
          dailyReturns |-> IF includeDailyReturns THEN Given(<<>>) ELSE Absent]
    ELSE LET loop == Accumulate(dates, totals, inboundTransferals,
                                outboundTransferals, 2, Num(0),
                                <<[date |-> dates[1], cumulativeReturn |-> Num(0)]>>)
             holdingPeriodDays == dates[Len(dates)] - dates[1]
         IN  [ttwror |-> loop.accumulated,
              ttwrorAnnualized |-> annualize(loop.accumulated, holdingPeriodDays),
              holdingPeriodDays |-> holdingPeriodDays,
              dailyReturns |-> IF includeDailyReturns
                               THEN Given(loop.dailyReturns)
                               ELSE Absent]

CalculateFromArrays(includeDailyReturns) ==
    /\ performance.op # "calculateFromArrays"
    /\ performance' =
           [op |-> "calculateFromArrays",
            valuations |-> PendingValuations,
            includeDailyReturns |-> includeDailyReturns,
            result |-> calculateFromArrays(DatesOf(PendingValuations),
                                           TotalsOf(PendingValuations),
                                           InboundTransferalsOf(PendingValuations),
                                           OutboundTransferalsOf(PendingValuations),
                                           includeDailyReturns)]
    /\ UNCHANGED <<ledgerVars, dbVars, analysisVars>>

TtwrorNext ==
    \/ \E point \in ValuationPoints \cup ExamplePoints \cup {NegativeValuation} :
           RecordValuation(point)
    \/ \E includeDailyReturns \in BOOLEAN : Calculate(includeDailyReturns)
    \/ \E includeDailyReturns \in BOOLEAN : CalculateFromArrays(includeDailyReturns)

SpecTtwror == Init /\ [][TtwrorNext]_vars

(***************************************************************************)
(* Properties of the time-weighted return                                  *)
(***************************************************************************)
Calculated == performance.op = "calculate"

SortedValuations == SortValuations(performance.valuations)

\* the market value changes by exactly the external flow of the day
NoMarketMovement(prev, curr) ==
    curr.marketValue = prev.marketValue + curr.externalFlow

\* the previous market value plus the inbound flow of the day is above 0
PositiveDenominator(prev, curr) ==
    prev.marketValue + (IF curr.externalFlow > 0 THEN curr.externalFlow ELSE 0) > 0

FlowsOnly(sorted) ==
    \A i \in 2 .. Len(sorted) : NoMarketMovement(sorted[i - 1], sorted[i])

DailyReturnsOf(calculation) == CHOOSE d \in calculation.dailyReturns : TRUE

\* C19: between two consecutive valuation points with a positive denominator
\* whose market value changes by exactly the external flow (a deposit or a
\* withdrawal), the period return is 0 and the cumulative return stays what
\* it was; a series whose only value changes are external flows has ttwror 0.
C19_FlowsNeutralized ==
    Calculated /\ Len(performance.valuations) >= 2 =>
        LET sorted == SortedValuations
        IN  /\ \A i \in 2 .. Len(sorted) :
                   /\ PositiveDenominator(sorted[i - 1], sorted[i])
                   /\ NoMarketMovement(sorted[i - 1], sorted[i])
                   => /\ PeriodReturn(sorted[i - 1], sorted[i]) = Num(0)
                      /\ performance.includeDailyReturns =>
                             LET daily == DailyReturnsOf(performance.result)
                             IN  daily[i].cumulativeReturn = daily[i - 1].cumulativeReturn
            /\ FlowsOnly(sorted) => performance.result.ttwror = Num(0)

\* a series given out of date order whose only value changes are a deposit
\* and a withdrawal, both on a positive denominator
C19_Witness ==
    /\ Calculated
    /\ performance.includeDailyReturns
    /\ Len(performance.valuations) = 3
    /\ LET sorted == SortedValuations
       IN  /\ sorted # performance.valuations
           /\ \E i, j \in 2 .. 3 :
                  /\ sorted[i].externalFlow > 0
                  /\ sorted[j].externalFlow < 0
           /\ FlowsOnly(sorted)
           /\ \A i \in 2 .. 3 : PositiveDenominator(sorted[i - 1], sorted[i])
    /\ performance.result.ttwror = Num(0)

\* a flow on a day without market movement, after a period in which the
\* market moved: the cumulative return stays what it was
C19_WitnessMovement ==
    /\ Calculated
    /\ performance.includeDailyReturns
    /\ Len(performance.valuations) = 3
    /\ LET sorted == SortedValuations
           daily == DailyReturnsOf(performance.result)
       IN  /\ ~NoMarketMovement(sorted[1], sorted[2])
           /\ PositiveDenominator(sorted[1], sorted[2])
           /\ NoMarketMovement(sorted[2], sorted[3])
           /\ PositiveDenominator(sorted[2], sorted[3])
           /\ sorted[3].externalFlow # 0
           /\ daily[2].cumulativeReturn # Num(0)
           /\ daily[3].cumulativeReturn = daily[2].cumulativeReturn

\* the factors k the flows are scaled by
ScaleFactors == {2, 3}

\* the sum of (k - 1) * externalFlow over the points up to position i
RECURSIVE FlowChange(_, _, _)
FlowChange(sorted, i, k) ==
    IF i = 0
    THEN 0
    ELSE FlowChange(sorted, i - 1, k) + (k - 1) * sorted[i].externalFlow

\* every externalFlow f replaced by k * f, and (k - 1) * f added to the market
\* value of that point and of every later point
ScaleFlows(sorted, k) ==
    [i \in 1 .. Len(sorted) |->
        [date |-> sorted[i].date,
         marketValue |-> sorted[i].marketValue + FlowChange(sorted, i, k),
         externalFlow |-> k * sorted[i].externalFlow]]

SameTtwrorScaled(k) ==
    calculate(ScaleFlows(SortedValuations, k), FALSE).ttwror = performance.result.ttwror

About(a, b, tolerance) == Less(MathAbs(Minus(a, b)), tolerance)

\* C21: for the series (1000, flow 0), (1550, flow +500), (1650, flow 0) the
\* first period returns 0.05, the second about 0.0645, and ttwror is about
\* 0.1177.
C21_DepositExample ==
    Calculated /\ performance.valuations = DepositExample =>
        /\ PeriodReturn(DepositExample[1], DepositExample[2]) = Fraction(5, 100)
        /\ About(PeriodReturn(DepositExample[2], DepositExample[3]),
                 Fraction(645, 10000), Fraction(1, 10000))
        /\ About(performance.result.ttwror, Fraction(1177, 10000), Fraction(1, 10000))

\* what calculate returns for that series: 1550/1500 - 1, 1650/1550 - 1 and 0.1
C21_CodeReturns ==
    /\ Calculated
    /\ performance.valuations = DepositExample
    /\ PeriodReturn(DepositExample[1], DepositExample[2]) = Fraction(1, 30)
    /\ PeriodReturn(DepositExample[2], DepositExample[3]) = Fraction(2, 31)
    /\ performance.result.ttwror = Fraction(1, 10)
    /\ performance.result.holdingPeriodDays = 365

(***************************************************************************)
(* PPIrrCalculator.  The rates of the bisection are multiples of           *)
(* 1 / RateUnit, which holds 0.001, 1 and every midpoint the ten halvings  *)
(* reach.  calculateNPV is a sum of doubles value / Math.pow(rate, days /  *)
(* 365): where every value is 0 or undiscounted (days 0) it is the sum of  *)
(* the undiscounted values whatever the rate, and is computed; elsewhere   *)
(* its sign, and what a Newton step finds, is any of the outcomes the      *)
(* code distinguishes, and the rate it leaves is Unknown.                  *)
(***************************************************************************)
MAX_ITERATIONS == 500

RateUnit == 2048000

\* 0.001, the left end of the bisection and the width it stops at
Thousandth == 2048

MaxCashFlows == 2

CashFlowDates == {0, 365}

CashFlowAmounts == {-1000, 0}

EndValues == {0, 1000, 1100}

EndDates == {0, 365}

CashFlows == [date : CashFlowDates, amount : CashFlowAmounts]

CashFlowSeries == UNION {[1 .. n -> CashFlows] : n \in 0 .. MaxCashFlows}

Unknown == [unknown |-> TRUE]

\* Math.sign gives 1, -1, 0 or NaN
Positive == "1"

Negative == "-1"

Zero == "0"

NaN == "NaN"

MathSign(x) == IF x > 0 THEN Positive ELSE IF x < 0 THEN Negative ELSE Zero

RECURSIVE SumSeq(_)
SumSeq(values) == IF values = <<>> THEN 0 ELSE Head(values) + SumSeq(Tail(values))

\* irr: number | null
NullRate == [null |-> TRUE]

emptyResult ==
    [irr |-> NullRate, irrAnnualized |-> NullRate, converged |-> FALSE, iterations |-> 0]

SortCashFlows(cashFlows) == SortValuations(cashFlows)

\* sortedFlows.filter((cf) => cf.date <= endDate)
ValidFlows(cashFlows, endDate) ==
    SelectSeq(SortCashFlows(cashFlows), LAMBDA cf : cf.date <= endDate)

\* reduce((sum, cf) => sum.plus(cf.amount.abs()), new Big(0))
RECURSIVE TotalFlow(_)
TotalFlow(flows) ==
    IF flows = <<>> THEN 0 ELSE Abs(Head(flows).amount) + TotalFlow(Tail(flows))

\* days since the first valid flow, of every valid flow and of the end date
DaysOf(validFlows, endDate) ==
    [i \in 1 .. Len(validFlows) + 1 |->
        IF i <= Len(validFlows)
        THEN validFlows[i].date - validFlows[1].date
        ELSE endDate - validFlows[1].date]

\* the amounts of the valid flows, and the end value
ValuesOf(validFlows, endValue) ==
    [i \in 1 .. Len(validFlows) + 1 |->
        IF i <= Len(validFlows) THEN validFlows[i].amount ELSE endValue]

\* every term of the NPV is undiscounted (Math.pow(rate, 0) = 1) or 0
RateFree(days, values) ==
    \A i \in 1 .. Len(days) : days[i] = 0 \/ values[i] = 0

\* calculateNPV where it does not depend on the rate
calculateNPV(days, values) ==
    SumSeq([i \in 1 .. Len(days) |-> IF days[i] = 0 THEN values[i] ELSE 0])

\* the signs Math.sign(calculateNPV(days, values, rate)) can have
NPVSigns(days, values) ==
    IF RateFree(days, values)
    THEN {MathSign(calculateNPV(days, values))}
    ELSE {Negative, Zero, Positive, NaN}

\* what an iteration of newtonRaphson finds: "flat" for |fdxi| < EPSILON,
\* "small" for delta < PRECISION, "step" for anything else.  Where the NPV
\* does not depend on the rate, right - left is 0 and so is the derivative.
NewtonFindings(days, values) ==
    IF RateFree(days, values) THEN {"flat"} ELSE {"flat", "small", "step"}

Rate(units) == Fraction(units, RateUnit)

annualizeRate(rate, days) ==
    IF rate = Unknown
    THEN Unknown
    ELSE IF days <= 0
         THEN Num(0)
         ELSE IF days = 365
              THEN rate
              ELSE LET base == Plus(Num(1), rate)
                   IN  IF base.n <= 0
                       THEN Num(-1)
                       ELSE [base |-> base, exponent |-> Fraction(365, days)]

MathMaxInt(a, b) == IF a >= b THEN a ELSE b

\* the lines of calculate after newtonRaphson has returned
IrrResult(days, rate, converged, iterations) ==
    LET holdingPeriodDays == MathMaxInt(1, days[Len(days)])
        irr == IF rate = Unknown THEN Unknown ELSE Minus(rate, Num(1))
    IN  [irr |-> irr,
         irrAnnualized |-> annualizeRate(irr, holdingPeriodDays),
         converged |-> converged,
         iterations |-> iterations]

\* newtonRaphson is entered with the guess x0
EnterNewton(call, guess) ==
    [op |-> "irr", pc |-> "newton", cashFlows |-> call.cashFlows,
     endValue |-> call.endValue, endDate |-> call.endDate,
     days |-> call.days, values |-> call.values,
     xi |-> guess, iterations |-> 0]

\* newtonRaphson returns and calculate builds its result
ReturnIrr(call, rate, converged, iterations, finding) ==
    [op |-> "irr", pc |-> "done", cashFlows |-> call.cashFlows,
     endValue |-> call.endValue, endDate |-> call.endDate,
     days |-> call.days, values |-> call.values,
     rate |-> rate, finding |-> finding,
     result |-> IrrResult(call.days, rate, converged, iterations)]

\* calculate up to the call of findInitialGuess, and findInitialGuess up to
\* the call of bisection.  The calculator keeps nothing between calls: one
\* call is followed from its start to its return.
IrrCalculate(cashFlows, endValue, endDate) ==
    /\ performance.op # "irr"
    /\ LET validFlows == ValidFlows(cashFlows, endDate)
           input == [op |-> "irr", cashFlows |-> cashFlows,
                     endValue |-> endValue, endDate |-> endDate]
       IN  IF \/ Len(cashFlows) = 0
              \/ Len(validFlows) = 0
              \/ (TotalFlow(validFlows) = 0 /\ endValue = 0)
           THEN performance' = input @@ [pc |-> "done", result |-> emptyResult]
           ELSE LET days == DaysOf(validFlows, endDate)
                    values == ValuesOf(validFlows, endValue)
                    call == input @@ [days |-> days, values |-> values]
                    fLeft == values[Len(values)]
                    fRight == SumSeq(values)
                IN  IF MathSign(fLeft) = MathSign(fRight)
                    THEN performance' = EnterNewton(call, Fraction(105, 100))
                    ELSE performance' =
                             call @@ [pc |-> "bisection", left |-> Thousandth,
                                      right |-> RateUnit,
                                      signRight |-> MathSign(fRight)]
    /\ UNCHANGED <<ledgerVars, dbVars, analysisVars>>

\* one call of bisection: it returns the guess, or calls itself on a half
Bisection ==
    /\ performance.op = "irr"
    /\ performance.pc = "bisection"
    /\ LET call == performance
           left == call.left
           right == call.right
           center == (left + right) \div 2
       IN  IF right - left < Thousandth
           THEN performance' = EnterNewton(call, Rate(center))
           ELSE \E signCenter \in NPVSigns(call.days, call.values) :
                    IF signCenter = Zero
                    THEN performance' = EnterNewton(call, Rate(center))
                    ELSE IF signCenter = call.signRight
                         THEN performance' = [call EXCEPT !.right = center,
                                                          !.signRight = signCenter]
                         ELSE performance' = [call EXCEPT !.left = center]
    /\ UNCHANGED <<ledgerVars, dbVars, analysisVars>>

ConvergedOnFlat(finding) == finding # "step"

Converged(finding) == finding = "small"

\* the loop may go on after this iteration
BelowCapUnbounded(iterations) == TRUE

BelowCap(iterations) == iterations < MAX_ITERATIONS

\* one iteration of the loop of newtonRaphson, and the return after the last
NewtonRaphson ==
    /\ performance.op = "irr"
    /\ performance.pc = "newton"
    /\ LET call == performance
           iterations == call.iterations + 1
       IN  \E finding \in NewtonFindings(call.days, call.values) :
               IF finding = "flat"
               THEN performance' =
                        ReturnIrr(call, call.xi, Converged(finding), iterations, finding)
               ELSE IF finding = "small"
                    THEN performance' =
                             ReturnIrr(call, Unknown, Converged(finding), iterations, finding)
                    ELSE IF BelowCap(iterations)
                         THEN performance' = [call EXCEPT !.xi = Unknown,
                                                          !.iterations = iterations]
                         ELSE performance' =
                                  ReturnIrr(call, Unknown, Converged(finding), iterations, finding)
    /\ UNCHANGED <<ledgerVars, dbVars, analysisVars>>

IrrNext ==
    \/ \E cashFlows \in CashFlowSeries, endValue \in EndValues, endDate \in EndDates :
           IrrCalculate(cashFlows, endValue, endDate)
    \/ Bisection
    \/ NewtonRaphson

SpecIrr == Init /\ [][IrrNext]_vars

(***************************************************************************)
(* Properties of the IRR solver                                            *)
(***************************************************************************)
IrrRunning == performance.op = "irr" /\ performance.pc # "done"

IrrReturned == performance.op = "irr" /\ performance.pc = "done"

IrrSolved == IrrReturned /\ performance.result # emptyResult

\* what is left of the call: the width of the bisection interval and the
\* iterations newtonRaphson may still make
IrrRemaining ==
    IF ~IrrRunning
    THEN 0
    ELSE IF performance.pc = "bisection"
         THEN performance.right - performance.left + MAX_ITERATIONS + 1
         ELSE MAX_ITERATIONS - performance.iterations

IrrResultInBounds ==
    /\ IrrRunning => IrrRemaining > 0
    /\ IrrReturned => performance.result.iterations \in 0 .. MAX_ITERATIONS
    /\ IrrSolved =>
           /\ performance.result.iterations >= 1
           /\ performance.result.converged <=> performance.finding = "small"
           /\ performance.finding = "step" =>
                  performance.result.iterations = MAX_ITERATIONS
           /\ performance.result.irr # NullRate
           /\ performance.rate # Unknown =>
                  performance.result.irr = Minus(performance.rate, Num(1))

IrrStepsTowardsReturn ==
    IrrRunning =>
        /\ IrrRemaining' < IrrRemaining
        /\ performance.pc = "bisection"
               /\ performance.right - performance.left < Thousandth
               => performance'.pc = "newton"

\* C22: calculate terminates: the bisection stops once the interval is
\* narrower than 0.001 and newtonRaphson makes at most 500 iterations, so
\* iterations is within 0..500; converged is true only when the last step
\* moved x by less than the precision, and at the cap or on a flat
\* derivative the last iterate is returned with converged false.
C22_IrrTerminates == []IrrResultInBounds /\ [][IrrStepsTowardsReturn]_vars

\* the cap is reached: the 500th iteration is made and is not the last step
C22_Witness ==
    /\ IrrSolved
    /\ performance.finding = "step"
    /\ performance.result.iterations = MAX_ITERATIONS
    /\ ~performance.result.converged

\* a step shorter than the precision, after at least one longer step
C22_WitnessConverged ==
    /\ IrrSolved
    /\ performance.result.converged
    /\ performance.result.iterations \in 2 .. MAX_ITERATIONS

\* a flat derivative at the guess that ten halvings towards 0.001 leave
C22_WitnessFlat ==
    /\ IrrSolved
    /\ performance.finding = "flat"
    /\ performance.rate = Rate(Thousandth + 999)
    /\ ~performance.result.converged

\* the rate is 0: a number, or Math.pow(base, exponent) - 1 with base 1
IsZeroRate(rate) ==
    IF rate \in {Unknown, NullRate}
    THEN FALSE
    ELSE IF "base" \in DOMAIN rate THEN rate.base = Num(1) ELSE rate = Num(0)

\* the earliest valid cash flow is dated on the end date
ZeroHoldingPeriod ==
    /\ IrrSolved
    /\ performance.days[Len(performance.days)] = 0

\* one buy of P on the end date, and an end value of P
SameDayBreakEven ==
    /\ ZeroHoldingPeriod
    /\ Len(performance.cashFlows) = 1
    /\ performance.cashFlows[1].amount < 0
    /\ performance.endValue = -performance.cashFlows[1].amount

\* C23: with the earliest cash flow dated on the end date, irrAnnualized is
\* 0, and for one buy of P on the end date with end value P irr is 0.
C23_ZeroHoldingPeriod ==
    /\ ZeroHoldingPeriod => IsZeroRate(performance.result.irrAnnualized)
    /\ SameDayBreakEven => IsZeroRate(performance.result.irr)

\* what calculate returns for the same-day break-even: the first midpoint of
\* the bisection, 0.5005, less 1, annualized over one day, after one iteration
C23_CodeReturns ==
    /\ SameDayBreakEven
    /\ performance.rate = Fraction(5005, 10000)
    /\ performance.result.irr = Fraction(-4995, 10000)
    /\ performance.result.irrAnnualized =
           [base |-> Fraction(5005, 10000), exponent |-> Num(365)]
    /\ performance.result.iterations = 1
    /\ ~performance.result.converged

\* one buy of P > 0 and an end value of 0 one year later
TotalLoss ==
    /\ IrrSolved
    /\ Len(performance.cashFlows) = 1
    /\ performance.cashFlows[1].amount < 0
    /\ performance.endValue = 0
    /\ performance.endDate - performance.cashFlows[1].date = 365

\* C24: for a total loss, converged is true and irr and irrAnnualized are
\* both about -1.
C24_TotalLoss ==
    TotalLoss =>
        /\ performance.result.converged
        /\ performance.result.irr \notin {Unknown, NullRate}
        /\ About(performance.result.irr, Num(-1), Fraction(1, 100))
        /\ About(performance.result.irrAnnualized, Num(-1), Fraction(1, 100))

\* what calculate returns for a total loss: the guess ten halvings leave,
\* about 0.0015, less 1, with converged false after one iteration
C24_CodeReturns ==
    /\ TotalLoss
    /\ performance.rate = Rate(Thousandth + 999)
    /\ performance.result.irr = Minus(Rate(Thousandth + 999), Num(1))
    /\ performance.result.irrAnnualized = performance.result.irr
    /\ About(performance.result.irr, Num(-1), Fraction(1, 100))
    /\ performance.result.iterations = 1
    /\ ~performance.result.converged

(***************************************************************************)
(* PPPerformanceService: the three calls that replay activities into the   *)
(* PPCostBasisCalculator the service was constructed with.  The ledger is  *)
(* the variable lots; a lot id stands for randomUUID() and is one no lot    *)
(* in the ledger has.  Activity dates are Date.getTime() values, the dates  *)
(* of valuations day numbers as for PPTtwrorCalculator.  Each call is       *)
(* recorded with its arguments and with whether it found lots in the        *)
(* ledger (history, not program state).                                     *)
(***************************************************************************)
MaxActivities == 2

\* a GhostfolioActivity; symbol "" and value Absent stand for undefined
GhostfolioActivity(date, type, symbol, quantity, unitPrice, fee, value) ==
    [date |-> date, type |-> type, symbol |-> symbol, quantity |-> quantity,
     unitPrice |-> unitPrice, fee |-> fee, value |-> value]

GhostfolioActivities ==
    { GhostfolioActivity(Day0, "BUY", "AAPL", 10, 100, 10, Absent),
      GhostfolioActivity(Day1, "BUY", "AAPL", 10, 120, 0, Absent),
      GhostfolioActivity(Day1, "SELL", "AAPL", 5, 130, 5, Absent),
      GhostfolioActivity(Day0, "BUY", "GOOGL", 5, 150, 5, Absent),
      GhostfolioActivity(Day1, "DIVIDEND", "AAPL", 10, 5, 0, Given(50)),
      GhostfolioActivity(Day0, "FEE", "", 1, 20, 0, Absent) }

ActivityStreams == UNION {[1 .. n -> GhostfolioActivities] : n \in 0 .. MaxActivities}

\* currentPrices: Map<string, Big>
CurrentPrices ==
    { [AAPL |-> 130, GOOGL |-> 140], [AAPL |-> 90] }

PerformanceEndDates == {Day1, 2 * Day1}

\* activity.value || activity.quantity.times(activity.unitPrice): a Big is
\* an object and never falsy
ActivityValue(activity) ==
    IF activity.value # Absent
    THEN CHOOSE v \in activity.value : TRUE
    ELSE activity.quantity * activity.unitPrice

\* a plausible slip: the ledger is not reset before the replay
KeepLots(ls) == ls

\* PPCostBasisCalculator.clear(): this.lots.clear()
clear(ls) == <<>>

\* the ledger after addPurchase(securityId, date, shares, totalCost, fees)
\* has made the lot id
WithPurchase(ls, id, securityId, date, shares, totalCost, fees) ==
    [s \in DOMAIN ls \cup {securityId} |->
        IF s = securityId
        THEN PushAndSort(LotsOf(ls, securityId), NewLot(id, date, shares, totalCost, fees))
        ELSE ls[s]]

\* processSale(securityId, sharesToSell, salePrice, saleDate): the ledger it
\* leaves and the gain it returns
SaleOutcome(ls, securityId, sharesToSell, salePrice) ==
    LET walk == SaleWalk(LotsOf(ls, securityId), 1, sharesToSell, 0, <<>>)
        actualSharesSold == ActualSharesSold(sharesToSell, walk.remaining)
        totalProceeds == actualSharesSold * salePrice
    IN  [lots |-> IF securityId \in DOMAIN ls
                  THEN [ls EXCEPT ![securityId] = walk.lots] ELSE ls,
         realizedGain |-> totalProceeds - walk.totalCostBasis]

RECURSIVE SumCostBasis(_)
SumCostBasis(activeLots) ==
    IF activeLots = <<>>
    THEN 0
    ELSE Head(activeLots).remainingShares * Head(activeLots).costPerShare
         + SumCostBasis(Tail(activeLots))

getCostBasisSummary(ls, securityId, currentPrice) ==
    LET activeLots == getActiveLots(ls, securityId)
        totalShares == SumRemaining(activeLots)
        totalCostBasis == SumCostBasis(activeLots)
        unrealizedGain == totalShares * currentPrice - totalCostBasis
    IN  [totalShares |-> totalShares,
         totalCostBasis |-> totalCostBasis,
         averageCostPerShare |-> IF totalShares > 0
                                 THEN Fraction(totalCostBasis, totalShares)
                                 ELSE Num(0),
         lots |-> activeLots,
         unrealizedGain |-> unrealizedGain,
         unrealizedGainPercent |-> IF totalCostBasis > 0
                                   THEN Times(Fraction(unrealizedGain, totalCostBasis),
                                              Num(100))
                                   ELSE Num(0)]

\* the keys of bySymbol in the order of insertion: the symbols of the
\* activities that have one, each where it comes first
RECURSIVE SymbolsInOrder(_)
SymbolsInOrder(activities) ==
    IF activities = <<>>
    THEN <<>>
    ELSE LET before == SymbolsInOrder(SubSeq(activities, 1, Len(activities) - 1))
             symbol == activities[Len(activities)].symbol
         IN  IF symbol = "" \/ \E k \in 1 .. Len(before) : before[k] = symbol
             THEN before
             ELSE Append(before, symbol)

\* bySymbol.get(symbol), sorted by date
SortedActivitiesOf(activities, symbol) ==
    SortByDate(SelectSeq(activities, LAMBDA a : a.symbol = symbol))

\* the loop over the sorted activities of one symbol, from position i on:
\* BUY adds a lot, SELL sells first-in first-out; the state of the ledger,
\* the next lot id, the gains realized and the latest price
RECURSIVE ReplayActivities(_, _, _, _)
ReplayActivities(replay, symbol, sorted, i) ==
    IF i > Len(sorted)
    THEN replay
    ELSE LET activity == sorted[i]
             value == ActivityValue(activity)
         IN  IF activity.type = "BUY"
             THEN ReplayActivities(
                      [replay EXCEPT
                          !.lots = WithPurchase(replay.lots, replay.nextId, symbol,
                                                activity.date, activity.quantity,
                                                value + activity.fee, activity.fee),
                          !.nextId = @ + 1,
                          !.latestPrice = activity.unitPrice],
                      symbol, sorted, i + 1)
             ELSE IF activity.type = "SELL"
                  THEN LET sale == SaleOutcome(replay.lots, symbol,
                                               activity.quantity, activity.unitPrice)
                       IN  ReplayActivities(
                               [replay EXCEPT
                                   !.lots = sale.lots,
                                   !.realized = @ + sale.realizedGain,
                                   !.latestPrice = activity.unitPrice],
                               symbol, sorted, i + 1)
                  ELSE ReplayActivities(replay, symbol, sorted, i + 1)

\* the loop over bySymbol.entries(), from position k on; after the
\* activities of a symbol, calculateCapitalGains adds the unrealized gain of
\* the shares that remain where the latest price is above 0
RECURSIVE ReplaySymbols(_, _, _, _)
ReplaySymbols(replay, activities, symbols, k) ==
    IF k > Len(symbols)
    THEN replay
    ELSE LET symbol == symbols[k]
             after == ReplayActivities([replay EXCEPT !.latestPrice = 0], symbol,
                                       SortedActivitiesOf(activities, symbol), 1)
             unrealizedGain ==
                 IF after.latestPrice > 0
                 THEN getCostBasisSummary(after.lots, symbol, after.latestPrice).unrealizedGain
                 ELSE 0
         IN  ReplaySymbols([after EXCEPT !.unrealized = @ + unrealizedGain],
                           activities, symbols, k + 1)

LotIds(ls) == UNION {{ls[s][k].id : k \in 1 .. Len(ls[s])} : s \in DOMAIN ls}

\* randomUUID(): an id that no lot of the ledger has
FreshLotId(ls) ==
    CHOOSE id \in 1 .. Cardinality(LotIds(ls)) + 1 : id \notin LotIds(ls)

\* the replay of a call into the ledger ls
Replay(ls, activities) ==
    ReplaySymbols([lots |-> ls, nextId |-> FreshLotId(ls), realized |-> 0, unrealized |-> 0,
                   latestPrice |-> 0],
                  activities, SymbolsInOrder(activities), 1)

\* activityToCashFlows before its sort: the cash flow of every activity
\* that has one
RECURSIVE CashFlowsOf(_)
CashFlowsOf(activities) ==
    IF activities = <<>>
    THEN <<>>
    ELSE LET activity == Head(activities)
             value == ActivityValue(activity)
             flow(amount, type) ==
                 <<[date |-> activity.date, amount |-> amount, type |-> type]>>
         IN  (CASE activity.type = "BUY" -> flow(-(value + activity.fee), "BUY")
                [] activity.type = "SELL" -> flow(value - activity.fee, "SELL")
                [] activity.type = "DIVIDEND" -> flow(value - activity.fee, "DIVIDEND")
                [] activity.type = "INTEREST" -> flow(value, "DIVIDEND")
                [] activity.type = "FEE" -> flow(-value, "FEE")
                [] OTHER -> <<>>)
             \o CashFlowsOf(Tail(activities))

activityToCashFlows(activities) == SortByDate(CashFlowsOf(activities))

\* the call irrCalculator.calculate(cashFlows, endValue, endDate): the solver
\* keeps no state and is followed in SpecIrr; the call stands for its result
IrrOf(cashFlows, endValue, endDate) ==
    [cashFlows |-> cashFlows, endValue |-> endValue, endDate |-> endDate]

valuationsToPoints(valuations) ==
    [i \in 1 .. Len(valuations) |->
        [date |-> valuations[i].date,
         marketValue |-> valuations[i].totalValue,
         externalFlow |-> valuations[i].deposits - valuations[i].withdrawals]]

RECURSIVE sumByType(_, _)
sumByType(activities, type) ==
    IF activities = <<>>
    THEN 0
    ELSE (IF Head(activities).type = type THEN ActivityValue(Head(activities)) ELSE 0)
         + sumByType(Tail(activities), type)

RECURSIVE sumFees(_)
sumFees(activities) ==
    IF activities = <<>> THEN 0 ELSE Head(activities).fee + sumFees(Tail(activities))

RECURSIVE calculateTotalInvestment(_)
calculateTotalInvestment(activities) ==
    IF activities = <<>>
    THEN 0
    ELSE LET activity == Head(activities)
             value == ActivityValue(activity)
         IN  (CASE activity.type = "BUY" -> value + activity.fee
                [] activity.type = "SELL" -> activity.fee - value
                [] OTHER -> 0)
             + calculateTotalInvestment(Tail(activities))

\* what calculateCapitalGains returns for a replay
CapitalGains(replay) ==
    [realized |-> replay.realized,
     unrealized |-> replay.unrealized,
     total |-> replay.realized + replay.unrealized]

\* the summaries of getCostBasisSummaries over getTrackedSecurities()
Summaries(ls, currentPrices) ==
    [symbol \in DOMAIN ls |->
        getCostBasisSummary(ls, symbol,
                            IF symbol \in DOMAIN currentPrices
                            THEN currentPrices[symbol] ELSE 0)]

\* a GhostfolioValuation series
GhostfolioValuations ==
    { << [date |-> 0, totalValue |-> 1000, deposits |-> 0, withdrawals |-> 0],
         [date |-> 365, totalValue |-> 1100, deposits |-> 0, withdrawals |-> 0] >>,
      << [date |-> 1, totalValue |-> 1500, deposits |-> 500, withdrawals |-> 0],
         [date |-> 0, totalValue |-> 1000, deposits |-> 0, withdrawals |-> 0],
         [date |-> 2, totalValue |-> 1000, deposits |-> 0, withdrawals |-> 500] >> }

PerformanceStartDates == {Day0, Day1}

CurrentValues == {2500}

HoldingPrices == {130}

getCostBasisSummaries(activities, currentPrices) ==
    LET replay == Replay(clear(lots), activities)
    IN  /\ lots' = replay.lots
        /\ nextLotId' = replay.nextId
        /\ performance' = [op |-> "getCostBasisSummaries",
                           foundLots |-> LotIds(lots) # {},
                           activities |-> activities,
                           currentPrices |-> currentPrices,
                           result |-> Summaries(replay.lots, currentPrices)]
        /\ UNCHANGED <<result, purchased, consumed, dbVars, analysisVars>>

calculatePerformance(activities, valuations, startDate, endDate, currentValue) ==
    LET periodActivities ==
            SelectSeq(activities, LAMBDA a : a.date >= startDate /\ a.date <= endDate)
        replay == Replay(clear(lots), activities)
        totalInvestment == calculateTotalInvestment(periodActivities)
        absolutePerformance == currentValue - totalInvestment
    IN  /\ lots' = replay.lots
        /\ nextLotId' = replay.nextId
        /\ performance' =
               [op |-> "calculatePerformance",
                foundLots |-> LotIds(lots) # {},
                activities |-> activities,
                valuations |-> valuations,
                startDate |-> startDate,
                endDate |-> endDate,
                currentValue |-> currentValue,
                result |->
                    [irr |-> IrrOf(activityToCashFlows(periodActivities),
                                   currentValue, endDate),
                     ttwror |-> calculate(valuationsToPoints(valuations), TRUE),
                     capitalGains |-> CapitalGains(replay),
                     dividends |-> sumByType(periodActivities, "DIVIDEND"),
                     fees |-> sumFees(periodActivities),
                     taxes |-> 0,
                     absolutePerformance |-> absolutePerformance,
                     absolutePerformancePercent |->
                         IF totalInvestment > 0
                         THEN Times(Fraction(absolutePerformance, totalInvestment),
                                    Num(100))
                         ELSE Num(0)]]
        /\ UNCHANGED <<result, purchased, consumed, dbVars, analysisVars>>

calculateHoldingPerformance(symbol, activities, currentPrice, endDate) ==
    LET symbolActivities == SelectSeq(activities, LAMBDA a : a.symbol = symbol)
        cashFlows == activityToCashFlows(symbolActivities)
        replay == ReplayActivities(
                      [lots |-> clear(lots), nextId |-> FreshLotId(clear(lots)),
                       realized |-> 0, unrealized |-> 0, latestPrice |-> 0],
                      symbol, SortByDate(symbolActivities), 1)
        costBasis == getCostBasisSummary(replay.lots, symbol, currentPrice)
        currentValue == costBasis.totalShares * currentPrice
    IN  /\ lots' = replay.lots
        /\ nextLotId' = replay.nextId
        /\ performance' =
               [op |-> "calculateHoldingPerformance",
                foundLots |-> LotIds(lots) # {},
                symbol |-> symbol,
                activities |-> activities,
                currentPrice |-> currentPrice,
                endDate |-> endDate,
                result |->
                    [irr |-> IrrOf(cashFlows, currentValue, endDate),
                     costBasis |-> costBasis,
                     holdingPeriodDays |->
                         getOldestHoldingPeriodDays(replay.lots, symbol, endDate),
                     isLongTerm |->
                         isLongTermHolding(replay.lots, symbol, endDate, 365)]]
        /\ UNCHANGED <<result, purchased, consumed, dbVars, analysisVars>>

GetCostBasisSummaries ==
    \E activities \in ActivityStreams, currentPrices \in CurrentPrices :
        getCostBasisSummaries(activities, currentPrices)

CalculatePerformance ==
    \E activities \in ActivityStreams, valuations \in GhostfolioValuations,
       startDate \in PerformanceStartDates, endDate \in PerformanceEndDates,
       currentValue \in CurrentValues :
        calculatePerformance(activities, valuations, startDate, endDate, currentValue)

CalculateHoldingPerformance ==
    \E symbol \in Securities, activities \in ActivityStreams,
       currentPrice \in HoldingPrices, endDate \in PerformanceEndDates :
        calculateHoldingPerformance(symbol, activities, currentPrice, endDate)

PerformanceNext ==
    \/ GetCostBasisSummaries
    \/ CalculatePerformance
    \/ CalculateHoldingPerformance

SpecPerformance == Init /\ [][PerformanceNext]_vars

(***************************************************************************)
(* Properties of the replay                                                *)
(***************************************************************************)
\* the part of a PPCostBasisSummary the summaries are compared on
SummaryFigures(summary) ==
    [totalShares |-> summary.totalShares,
     totalCostBasis |-> summary.totalCostBasis,
     averageCostPerShare |-> summary.averageCostPerShare,
     unrealizedGain |-> summary.unrealizedGain]

EmptyLedger == <<>>

\* the activities of the call replayed into a ledger that holds nothing
FreshReplay == Replay(EmptyLedger, performance.activities)

FreshHoldingReplay ==
    ReplayActivities([lots |-> EmptyLedger, nextId |-> 1, realized |-> 0,
                      unrealized |-> 0, latestPrice |-> 0],
                     performance.symbol,
                     SortByDate(SelectSeq(performance.activities,
                                          LAMBDA a : a.symbol = performance.symbol)),
                     1)

\* C25: replaying the same activities gives the same summaries: what
\* getCostBasisSummaries, the capital gains of calculatePerformance and
\* calculateHoldingPerformance return is what the replay of the call's
\* activities into an empty ledger gives, whatever an earlier call has left.
C25_ReplayDeterministic ==
    /\ performance.op = "getCostBasisSummaries" =>
           LET fresh == Summaries(FreshReplay.lots, performance.currentPrices)
           IN  /\ DOMAIN performance.result = DOMAIN fresh
               /\ \A symbol \in DOMAIN fresh :
                      SummaryFigures(performance.result[symbol])
                          = SummaryFigures(fresh[symbol])
    /\ performance.op = "calculatePerformance" =>
           performance.result.capitalGains = CapitalGains(FreshReplay)
    /\ performance.op = "calculateHoldingPerformance" =>
           LET fresh == FreshHoldingReplay.lots
           IN  /\ SummaryFigures(performance.result.costBasis)
                      = SummaryFigures(getCostBasisSummary(fresh, performance.symbol,
                                                           performance.currentPrice))
               /\ performance.result.holdingPeriodDays
                      = getOldestHoldingPeriodDays(fresh, performance.symbol,
                                                   performance.endDate)
               /\ performance.result.isLongTerm
                      = isLongTermHolding(fresh, performance.symbol,
                                          performance.endDate, 365)

\* summaries asked for a second time: the call found the lots of an earlier
\* call in the ledger, and returns a purchase and a sale of AAPL
C25_Witness ==
    /\ performance.op = "getCostBasisSummaries"
    /\ performance.foundLots
    /\ "AAPL" \in DOMAIN performance.result
    /\ performance.result["AAPL"].totalShares = 5
    /\ performance.result["AAPL"].totalCostBasis = 505

C25_WitnessGains ==
    /\ performance.op = "calculatePerformance"
    /\ performance.foundLots
    /\ performance.result.capitalGains.realized # 0
    /\ performance.result.capitalGains.unrealized # 0

C25_WitnessHolding ==
    /\ performance.op = "calculateHoldingPerformance"
    /\ performance.foundLots
    /\ performance.result.costBasis.totalShares = 20
    /\ performance.result.holdingPeriodDays = Days(2)

(***************************************************************************)
(* Properties of the suggestions against the positions held                *)
(***************************************************************************)
\* C26: every SELL suggestion has suggestedShares <= currentShares and
\* suggestedAmount <= currentValue of the holding it names, whatever mix of
\* sellable and never-sell holdings the overweight sub-class has.
C26_SellExecutable ==
    HasSuggestions =>
        \A s \in Range(Sells) :
            /\ s.suggestedShares <= s.currentShares
            /\ AtLeast(Num(s.currentValue), s.suggestedAmount)

\* what getRebalancingSuggestions returns for the 10,000 portfolio with MSFT
\* marked never-sell, EQUITY at 60 and STOCK at 40 of it: the whole drift of
\* the sub-class, 7,000 - 2,400, is put on AAPL, 46 shares of the 40 held
C26_CodeReturns ==
    /\ HasSuggestions
    /\ \E s \in Range(Sells) :
           /\ s.symbol = "AAPL"
           /\ NeverSell("MSFT")
           /\ SubRow(s).driftValue = Num(4600)
           /\ s.currentShares = 40
           /\ s.suggestedShares = 46
           /\ s.currentValue = 4000
           /\ s.suggestedAmount = Num(4600)

\* the asset class the portfolio gives for a symbol
ClassOfSymbol(symbol) ==
    LET h == CHOOSE x \in Range(report.holdings) : x.symbol = symbol
    IN  ClassKey(h)

\* C27: in every analysis each sub-class row is nested in its class row: every
\* holding listed under the sub-class row has the class row's asset class, the
\* sub-class row's actualValue is at most the class row's, and
\* actualPercentOfParent is at most 100, also when holdings of the same
\* sub-class exist under another asset class.
C27_SubClassNested ==
    HasAnalysis =>
        \A row \in Range(report.analysis.assetClassAllocations) :
            \A sub \in Range(row.subClassAllocations) :
                /\ \A h \in Range(sub.holdings) : ClassOfSymbol(h.symbol) = row.assetClass
                /\ sub.actualValue <= row.actualValue
                /\ AtLeast(Num(100), sub.actualPercentOfParent)

\* what getAllocationAnalysis returns for the 10,000 portfolio and a BOND
\* target under DEBT: the row lists BND (DEBT) and TLT (FIXED_INCOME), 3,000
\* against the 2,000 of its parent, 150 percent of it
C27_CodeReturns ==
    /\ HasAnalysis
    /\ \E row \in Range(report.analysis.assetClassAllocations) :
           /\ row.assetClass = "DEBT"
           /\ row.actualValue = 2000
           /\ \E sub \in Range(row.subClassAllocations) :
                  /\ sub.assetSubClass = "BOND"
                  /\ {h.symbol : h \in Range(sub.holdings)} = {"BND", "TLT"}
                  /\ ClassOfSymbol("TLT") = "FIXED_INCOME"
                  /\ sub.actualValue = 3000
                  /\ sub.actualPercentOfParent = Num(150)

\* the latest call returned, or the rule was evaluated with, the drift summary
\* of a user with an active strategy
HasDriftSummary ==
    /\ report.op \in {"getDriftSummary", "evaluate"}
    /\ report.outcome = "ok"
    /\ report.summary.hasActiveStrategy

\* the rule was evaluated with a drift summary
RuleEvaluated == report.op = "evaluate" /\ report.driftData # Absent

\* C28: in every drift summary for a user with an active strategy
\* overallStatus is CRITICAL exactly when categoriesOverThreshold is
\* non-empty, every class row with driftStatus CRITICAL is listed in
\* categoriesOverThreshold, and the TargetAllocationDrift rule evaluates to
\* value = false exactly when overallStatus is CRITICAL.
C28_CriticalIsOverThreshold ==
    HasDriftSummary =>
        LET summary == report.summary
        IN  /\ summary.overallStatus = "CRITICAL"
                   <=> summary.categoriesOverThreshold # <<>>
            /\ \A row \in Range(report.analysis.assetClassAllocations) :
                   row.driftStatus = "CRITICAL" =>
                       \E category \in Range(summary.categoriesOverThreshold) :
                           category.name = row.assetClass
            /\ RuleEvaluated =>
                   (report.rule.value = FALSE <=> summary.overallStatus = "CRITICAL")

\* what the code returns for the 10,000 portfolio, EQUITY at 60 and a
\* threshold of 10: the drift of 10 makes the row and the summary CRITICAL, no
\* category is over the threshold, and the rule passes as "approaching"
C28_CodeReturns ==
    /\ HasDriftSummary
    /\ RuleEvaluated
    /\ report.summary.driftThreshold = 10
    /\ report.summary.maxDrift = Num(10)
    /\ report.summary.overallStatus = "CRITICAL"
    /\ \E row \in Range(report.analysis.assetClassAllocations) :
           row.driftPercent = Num(10) /\ row.driftStatus = "CRITICAL"
    /\ report.summary.categoriesOverThreshold = <<>>
    /\ report.rule = [evaluation |-> "approaching", value |-> TRUE]

(***************************************************************************)
(* PPRebalancingService.suggestNewInvestmentAllocation.  The amounts are    *)
(* Big values; Big.div rounds to 20 decimal places, and the deltas of the   *)
(* scenario give proportions that are exact at that precision.  percent is  *)
(* the number nearest to the Big value it is converted from and is kept as  *)
(* that value.                                                              *)
(***************************************************************************)
MaxResults == 2

\* the categories of the results, in the order of the targets they come from
CategoryIds == <<"equity", "bonds", "cash">>

Deltas == {-200, 0, 100, 300}

TargetAllocations == {Fraction(25, 100), Fraction(75, 100)}

NewAmounts == {0, 100, 400, 1000}

\* the fields of a PPRebalancingResult that suggestNewInvestmentAllocation reads
PPRebalancingResult(categoryId, targetAllocation, delta) ==
    [categoryId |-> categoryId, categoryName |-> categoryId,
     targetAllocation |-> targetAllocation, delta |-> Num(delta)]

\* rebalancingResults.filter((r) => r.delta.gt(0))
Underweight(rebalancingResults) ==
    SelectSeq(rebalancingResults, LAMBDA r : Less(Num(0), r.delta))

\* underweight.reduce((sum, r) => sum.plus(r.delta), new Big(0))
RECURSIVE TotalShortfall(_)
TotalShortfall(underweight) ==
    IF underweight = <<>> THEN Num(0)
    ELSE Plus(Head(underweight).delta, TotalShortfall(Tail(underweight)))

\* newAmount.gt(0) ? amount.div(newAmount).times(100).toNumber() : 0
PercentOfNewAmount(amount, newAmount) ==
    IF Less(Num(0), newAmount) THEN Times(Over(amount, newAmount), Num(100)) ELSE Num(0)

\* the return of the branch without an underweight category
ByTargetAllocation(newAmount, rebalancingResults) ==
    [i \in 1 .. Len(rebalancingResults) |->
        [categoryId |-> rebalancingResults[i].categoryId,
         categoryName |-> rebalancingResults[i].categoryName,
         amount |-> Times(newAmount, rebalancingResults[i].targetAllocation),
         percent |-> Times(rebalancingResults[i].targetAllocation, Num(100))]]

\* underweight.map(...): the proportional share, capped at the shortfall
ByShortfall(newAmount, underweight) ==
    LET totalShortfall == TotalShortfall(underweight)
    IN  [i \in 1 .. Len(underweight) |->
            LET r == underweight[i]
                proportion == Over(r.delta, totalShortfall)
                amount == IF Less(Times(newAmount, proportion), r.delta)
                          THEN Times(newAmount, proportion)
                          ELSE r.delta
            IN  [categoryId |-> r.categoryId,
                 categoryName |-> r.categoryName,
                 amount |-> amount,
                 percent |-> PercentOfNewAmount(amount, newAmount)]]

\* suggestions.reduce((sum, s) => sum.plus(s.amount), new Big(0))
RECURSIVE Allocated(_)
Allocated(suggestions) ==
    IF suggestions = <<>> THEN Num(0)
    ELSE Plus(Head(suggestions).amount, Allocated(Tail(suggestions)))

\* underweight.find((u) => u.categoryId === a.categoryId)?.delta || new Big(0)
DeltaOfCategory(underweight, categoryId) ==
    LET found == SelectSeq(underweight, LAMBDA u : u.categoryId = categoryId)
    IN  IF found = <<>> THEN Num(0) ELSE Head(found).delta

\* suggestions.sort((a, b) => deltaB.minus(deltaA).toNumber()), a stable sort
RECURSIVE InsertByShortfall(_, _, _)
InsertByShortfall(sorted, suggestion, underweight) ==
    IF sorted = <<>> THEN <<suggestion>>
    ELSE IF Less(DeltaOfCategory(underweight, Head(sorted).categoryId),
                 DeltaOfCategory(underweight, suggestion.categoryId))
         THEN <<suggestion>> \o sorted
         ELSE <<Head(sorted)>> \o InsertByShortfall(Tail(sorted), suggestion, underweight)

RECURSIVE SortByShortfall(_, _)
SortByShortfall(suggestions, underweight) ==
    IF suggestions = <<>> THEN <<>>
    ELSE InsertByShortfall(
             SortByShortfall(SubSeq(suggestions, 1, Len(suggestions) - 1), underweight),
             suggestions[Len(suggestions)], underweight)

\* suggestions[0].amount = suggestions[0].amount.plus(remaining), and its percent
AddRemaining(sorted, remaining, newAmount) ==
    LET amount == Plus(sorted[1].amount, remaining)
    IN  [sorted EXCEPT ![1] = [@ EXCEPT !.amount = amount,
                                        !.percent = PercentOfNewAmount(amount, newAmount)]]

suggestNewInvestmentAllocation(newAmount, rebalancingResults) ==
    LET underweight == Underweight(rebalancingResults)
        suggestions == ByShortfall(newAmount, underweight)
        remaining == Minus(newAmount, Allocated(suggestions))
    IN  IF Len(underweight) = 0
        THEN ByTargetAllocation(newAmount, rebalancingResults)
        ELSE IF Less(Num(0), remaining) /\ Len(suggestions) > 0
             THEN AddRemaining(SortByShortfall(suggestions, underweight),
                               remaining, newAmount)
             ELSE suggestions

\* the results a caller has put together so far, one category at a time
PendingResults ==
    IF performance.op = "results" THEN performance.rebalancingResults ELSE <<>>

RecordResult(targetAllocation, delta) ==
    /\ Len(PendingResults) < MaxResults
    /\ Len(PendingResults) < Len(CategoryIds)
    /\ performance' =
           [op |-> "results",
            rebalancingResults |->
                Append(PendingResults,
                       PPRebalancingResult(CategoryIds[Len(PendingResults) + 1],
                                           targetAllocation, delta))]
    /\ UNCHANGED <<ledgerVars, dbVars, analysisVars>>

SuggestNewInvestmentAllocation(newAmount) ==
    /\ performance.op # "suggestNewInvestmentAllocation"
    /\ performance' =
           [op |-> "suggestNewInvestmentAllocation",
            newAmount |-> Num(newAmount),
            rebalancingResults |-> PendingResults,
            result |-> suggestNewInvestmentAllocation(Num(newAmount), PendingResults)]
    /\ UNCHANGED <<ledgerVars, dbVars, analysisVars>>

NewInvestmentNext ==
    \/ \E targetAllocation \in TargetAllocations, delta \in Deltas :
           RecordResult(targetAllocation, delta)
    \/ \E newAmount \in NewAmounts : SuggestNewInvestmentAllocation(newAmount)

SpecNewInvestment == Init /\ [][NewInvestmentNext]_vars

(***************************************************************************)
(* Properties of the allocation of new money                               *)
(***************************************************************************)
Suggested == performance.op = "suggestNewInvestmentAllocation"

\* the delta of the result a suggestion is for
ShortfallOf(suggestion) ==
    LET r == CHOOSE x \in Range(performance.rebalancingResults) :
                 x.categoryId = suggestion.categoryId
    IN  r.delta

\* C29: whenever at least one category has a positive delta, every returned
\* suggestion has amount <= the delta of its category, for every newAmount
\* >= 0 (also one larger than the total shortfall), and only categories with
\* a positive delta receive an allocation.
C29_WithinShortfall ==
    (/\ Suggested
     /\ AtLeast(performance.newAmount, Num(0))
     /\ Underweight(performance.rebalancingResults) # <<>>) =>
        \A suggestion \in Range(performance.result) :
            /\ Less(Num(0), ShortfallOf(suggestion))
            /\ AtLeast(ShortfallOf(suggestion), suggestion.amount)

\* what the code returns for 1,000 of new money and shortfalls of 100 and
\* 300: the 600 that remain are added to the larger one, 900 against 300
C29_CodeReturns ==
    /\ Suggested
    /\ performance.newAmount = Num(1000)
    /\ {r.delta : r \in Range(performance.rebalancingResults)} = {Num(100), Num(300)}
    /\ Len(performance.result) = 2
    /\ performance.result[1].amount = Num(900)
    /\ ShortfallOf(performance.result[1]) = Num(300)
    /\ performance.result[2].amount = Num(100)

(***************************************************************************)
(* Properties of the two forms of the TTWROR calculation                    *)
(***************************************************************************)
CalculatedFromArrays == performance.op = "calculateFromArrays"

\* the given series is in date order
InDateOrder(valuations) ==
    \A i \in 2 .. Len(valuations) : valuations[i - 1].date <= valuations[i].date

\* a period of the series has a negative denominator
NegativeDenominator(valuations) ==
    \E i \in 2 .. Len(valuations) : Denominator(valuations[i - 1], valuations[i]) < 0

\* C30: for every valuation series calculateFromArrays, called with the dates
\* and totals of the series and with inbound = max(externalFlow, 0) and
\* outbound = max(-externalFlow, 0), returns the same ttwror, holdingPeriodDays
\* and per-point cumulative series as calculate, also for periods with a
\* denominator of zero or below and for input given out of date order.
C30_SameAccumulator ==
    CalculatedFromArrays =>
        LET fromPoints == calculate(performance.valuations, performance.includeDailyReturns)
        IN  /\ performance.result.ttwror = fromPoints.ttwror
            /\ performance.result.holdingPeriodDays = fromPoints.holdingPeriodDays
            /\ performance.result.dailyReturns = fromPoints.dailyReturns

\* what the two return for a series in date order with a negative
\* denominator: calculate skips the period, calculateFromArrays links
\* 1000 / -500 - 1 = -3
C30_CodeReturnsNegative ==
    /\ CalculatedFromArrays
    /\ performance.valuations =
           <<NegativeValuation, [date |-> 3, marketValue |-> 1000, externalFlow |-> 0]>>
    /\ NegativeDenominator(performance.valuations)
    /\ performance.result.ttwror = Num(-3)
    /\ calculate(performance.valuations, FALSE).ttwror = Num(0)

\* what the two return for a series given out of date order: calculate sorts
\* it, calculateFromArrays takes it as given
C30_CodeReturnsUnsorted ==
    /\ CalculatedFromArrays
    /\ performance.valuations =
           <<[date |-> 3, marketValue |-> 1500, externalFlow |-> 0],
             [date |-> 1, marketValue |-> 1000, externalFlow |-> 0]>>
    /\ ~InDateOrder(performance.valuations)
    /\ performance.result.ttwror = Fraction(-1, 3)
    /\ performance.result.holdingPeriodDays = -2
    /\ calculate(performance.valuations, FALSE).ttwror = Fraction(1, 2)
    /\ calculate(performance.valuations, FALSE).holdingPeriodDays = 2

\* where the two agree, the rounding of the doubles apart: a series in date
\* order without a negative denominator, zero denominators included
C30_AgreeInOrder ==
    (/\ CalculatedFromArrays
     /\ InDateOrder(performance.valuations)
     /\ ~NegativeDenominator(performance.valuations)) =>
        LET fromPoints == calculate(performance.valuations, performance.includeDailyReturns)
        IN  /\ performance.result.ttwror = fromPoints.ttwror
            /\ performance.result.holdingPeriodDays = fromPoints.holdingPeriodDays
            /\ performance.result.dailyReturns = fromPoints.dailyReturns

=============================================================================
